---- MODULE Spec2Model ----
(***************************************************************************)
(* A model of the issue index and severity classifier of ruff-html:       *)
(* ruff_reporter/issues.py (the current implementation) and                *)
(* original_report/issues.py (the earlier one, with the cached counters),  *)
(* and of the code scoring of ruff_reporter/quality.py.                    *)
(*                                                                         *)
(* Python values are tagged records, so that values of different Python    *)
(* types can meet in one dictionary lookup and compare unequal, as they do *)
(* in Python.  A Python str is the sequence of its characters (the         *)
(* classifier slices codes), a dict is the sequence of its entries in      *)
(* insertion order, and a call's outcome is a record of the exception it   *)
(* raised (if any), the value it returned and the warnings it emitted.     *)
(***************************************************************************)
EXTENDS Integers, Sequences, FiniteSets, TLC

VARIABLES
    _values,        \* IssueMapping._values: id(issue) -> Issue
    _file_map,      \* IssueMapping._file_map: filename -> set of ids
    _ruleset_map,   \* IssueMapping._ruleset_map: rule family -> set of ids
    _code_map,      \* IssueMapping._code_map: code -> set of ids
    _severity_map,  \* IssueMapping._severity_map: severity name -> set of ids
    _fix_map,       \* IssueMapping._fix_map: Fix -> set of ids
    cache,          \* original_report: the lru_cache of each counter method
    gen,            \* the generator returned by the last call of iter
    issue_code,     \* the code handed to the classifier
    serialized_issue, \* the record handed to create_issue
    ruff_file,      \* the batch of records handed to collect_issues
    statistics,     \* the Statistics object made last
    added,          \* history: the add calls made, in order
    ret             \* the outcome of the last call

vars == <<_values, _file_map, _ruleset_map, _code_map, _severity_map, _fix_map,
          cache, gen, issue_code, serialized_issue, ruff_file, statistics,
          added, ret>>

-----------------------------------------------------------------------------
(* Python values *)

PyNone == [t |-> "None"]
PyStr(s) == [t |-> "str", s |-> s]
PyInt(i) == [t |-> "int", i |-> i]
PyFunction(name) == [t |-> "function", name |-> name]
PyCachedProperty(name) == [t |-> "cached_property", name |-> name]

\* The outcome of a call that returned v.
Returned(v) == [exc |-> "", v |-> v, w |-> <<>>]
\* The outcome of a call that raised exc.
Raised(exc) == [exc |-> exc, v |-> PyNone, w |-> <<>>]

\* s[:n]: slicing beyond the end of s yields s.
Slice(s, n) == SubSeq(s, 1, IF n < Len(s) THEN n ELSE Len(s))

\* sub in s, for sequences of characters.
Contains(s, sub) ==
    \E i \in 1..(Len(s) - Len(sub) + 1) : SubSeq(s, i, i + Len(sub) - 1) = sub

\* dict: a sequence of entries [k, v], in insertion order.
DictHas(d, k) == \E i \in 1..Len(d) : d[i].k = k
DictIndex(d, k) == CHOOSE i \in 1..Len(d) : d[i].k = k
DictGet(d, k, default) == IF DictHas(d, k) THEN d[DictIndex(d, k)].v ELSE default
DictSet(d, k, v) ==
    IF DictHas(d, k)
    THEN [d EXCEPT ![DictIndex(d, k)] = [k |-> k, v |-> v]]
    ELSE Append(d, [k |-> k, v |-> v])
DictKeys(d) == [i \in 1..Len(d) |-> d[i].k]

-----------------------------------------------------------------------------
(* RULESET SEVERITY *)

SevMember(name, value) == [t |-> "SEVERITY", name |-> name, value |-> value]

SEVERITY_NULL == SevMember(<<"N", "U", "L", "L">>, -1)
SEVERITY_NO_ISSUES == SevMember(<<"N", "O", "_", "I", "S", "S", "U", "E", "S">>, 0)
SEVERITY_FIXED == SevMember(<<"F", "I", "X", "E", "D">>, 1)
SEVERITY_INFO == SevMember(<<"I", "N", "F", "O">>, 2)
SEVERITY_BEST_PRACTICE ==
    SevMember(<<"B", "E", "S", "T", "_", "P", "R", "A", "C", "T", "I", "C", "E">>, 3)
SEVERITY_WARNING == SevMember(<<"W", "A", "R", "N", "I", "N", "G">>, 4)
SEVERITY_ERROR == SevMember(<<"E", "R", "R", "O", "R">>, 5)

SEVERITY ==
    {SEVERITY_NULL, SEVERITY_NO_ISSUES, SEVERITY_FIXED, SEVERITY_INFO,
     SEVERITY_BEST_PRACTICE, SEVERITY_WARNING, SEVERITY_ERROR}

\* The rule families of class RULESETS with their severities, in the order
\* of the class body.
RULESETS ==
    <<
      <<<<"F">>, SEVERITY_ERROR>>,
      <<<<"E">>, SEVERITY_ERROR>>,
      <<<<"W">>, SEVERITY_WARNING>>,
      <<<<"C">>, SEVERITY_BEST_PRACTICE>>,
      <<<<"I">>, SEVERITY_BEST_PRACTICE>>,
      <<<<"N">>, SEVERITY_BEST_PRACTICE>>,
      <<<<"D">>, SEVERITY_INFO>>,
      <<<<"U">>, SEVERITY_BEST_PRACTICE>>,
      <<<<"Y", "T", "T">>, SEVERITY_WARNING>>,
      <<<<"A", "N", "N">>, SEVERITY_INFO>>,
      <<<<"A", "S", "Y", "N", "C">>, SEVERITY_WARNING>>,
      <<<<"S">>, SEVERITY_WARNING>>,
      <<<<"B", "L", "E">>, SEVERITY_BEST_PRACTICE>>,
      <<<<"F", "B", "T">>, SEVERITY_BEST_PRACTICE>>,
      <<<<"B">>, SEVERITY_WARNING>>,
      <<<<"A">>, SEVERITY_ERROR>>,
      <<<<"C", "O", "M">>, SEVERITY_INFO>>,
      <<<<"C", "O", "M", "P">>, SEVERITY_BEST_PRACTICE>>,
      <<<<"D", "T", "Z">>, SEVERITY_BEST_PRACTICE>>,
      <<<<"T", "1", "0">>, SEVERITY_ERROR>>,
      <<<<"D", "J">>, SEVERITY_BEST_PRACTICE>>,
      <<<<"E", "M">>, SEVERITY_WARNING>>,
      <<<<"E", "X", "E">>, SEVERITY_WARNING>>,
      <<<<"F", "A">>, SEVERITY_BEST_PRACTICE>>,
      <<<<"I", "S", "C">>, SEVERITY_WARNING>>,
      <<<<"I", "C", "N">>, SEVERITY_BEST_PRACTICE>>,
      <<<<"L", "O", "G">>, SEVERITY_BEST_PRACTICE>>,
      <<<<"G">>, SEVERITY_BEST_PRACTICE>>,
      <<<<"I", "N", "P">>, SEVERITY_ERROR>>,
      <<<<"P", "I", "E">>, SEVERITY_BEST_PRACTICE>>,
      <<<<"T", "2", "0">>, SEVERITY_ERROR>>,
      <<<<"P", "Y", "I">>, SEVERITY_BEST_PRACTICE>>,
      <<<<"P", "T">>, SEVERITY_BEST_PRACTICE>>,
      <<<<"Q">>, SEVERITY_BEST_PRACTICE>>,
      <<<<"R", "S", "E">>, SEVERITY_WARNING>>,
      <<<<"R", "E", "T">>, SEVERITY_BEST_PRACTICE>>,
      <<<<"S", "L", "F">>, SEVERITY_BEST_PRACTICE>>,
      <<<<"S", "L", "O", "T">>, SEVERITY_BEST_PRACTICE>>,
      <<<<"S", "I", "M">>, SEVERITY_BEST_PRACTICE>>,
      <<<<"T", "I", "D">>, SEVERITY_BEST_PRACTICE>>,
      <<<<"T", "C">>, SEVERITY_BEST_PRACTICE>>,
      <<<<"I", "N", "T">>, SEVERITY_BEST_PRACTICE>>,
      <<<<"A", "R", "G">>, SEVERITY_WARNING>>,
      <<<<"P", "T", "H">>, SEVERITY_BEST_PRACTICE>>,
      <<<<"T", "D">>, SEVERITY_WARNING>>,
      <<<<"F", "I", "X">>, SEVERITY_WARNING>>,
      <<<<"E", "R", "A">>, SEVERITY_WARNING>>,
      <<<<"P", "D">>, SEVERITY_BEST_PRACTICE>>,
      <<<<"P", "G", "H">>, SEVERITY_BEST_PRACTICE>>,
      <<<<"P", "L">>, SEVERITY_BEST_PRACTICE>>,
      <<<<"P", "L", "C">>, SEVERITY_BEST_PRACTICE>>,
      <<<<"P", "L", "E">>, SEVERITY_ERROR>>,
      <<<<"R">>, SEVERITY_BEST_PRACTICE>>,
      <<<<"P", "L", "W">>, SEVERITY_WARNING>>,
      <<<<"T", "R", "Y">>, SEVERITY_BEST_PRACTICE>>,
      <<<<"F", "L", "Y">>, SEVERITY_BEST_PRACTICE>>,
      <<<<"N", "P", "Y">>, SEVERITY_BEST_PRACTICE>>,
      <<<<"F", "A", "S", "T">>, SEVERITY_BEST_PRACTICE>>,
      <<<<"A", "I", "R">>, SEVERITY_BEST_PRACTICE>>,
      <<<<"P", "E", "R", "F">>, SEVERITY_BEST_PRACTICE>>,
      <<<<"F", "U", "R", "B">>, SEVERITY_BEST_PRACTICE>>,
      <<<<"D", "O", "C">>, SEVERITY_BEST_PRACTICE>>,
      <<<<"R", "U", "F">>, SEVERITY_BEST_PRACTICE>>
    >>

\* The names of the three methods of class RULESETS.
RULESETS_methods == {<<"g", "e", "t">>, <<"k", "e", "y", "s">>, <<"m", "a", "t", "c", "h">>}

\* dir(self) of the RULESETS instance: the class attributes, the methods
\* and the names every object has (some of them).
RULESETS_dir ==
    {RULESETS[i][1] : i \in 1..Len(RULESETS)} \cup RULESETS_methods
      \cup {<<"_", "_", "d", "i", "c", "t", "_", "_">>,
            <<"_", "_", "d", "o", "c", "_", "_">>,
            <<"_", "_", "e", "q", "_", "_">>,
            <<"_", "_", "i", "n", "i", "t", "_", "_">>}

\* RULESETS.keys (a cached property).
RULESETS_keys ==
    {key \in RULESETS_dir : ~Contains(key, <<"_", "_">>)} \cup RULESETS_methods

\* RULESETS.__dict__: the namespace of the class.
RULESETS__dict__ ==
    [i \in 1..Len(RULESETS) |-> [k |-> PyStr(RULESETS[i][1]), v |-> RULESETS[i][2]]]
      \o <<[k |-> PyStr(<<"k", "e", "y", "s">>), v |-> PyCachedProperty(<<"k", "e", "y", "s">>)],
           [k |-> PyStr(<<"g", "e", "t">>), v |-> PyFunction(<<"g", "e", "t">>)],
           [k |-> PyStr(<<"m", "a", "t", "c", "h">>),
            v |-> PyFunction(<<"m", "a", "t", "c", "h">>)]>>

\* The loop of RULESETS.match from prefix length `length` down to 1; when
\* no prefix is a key, a warning is emitted and None is returned.
RECURSIVE match_from(_, _)
match_from(code, length) ==
    IF length = 0
    THEN [exc |-> "", v |-> PyNone, w |-> <<code>>]
    ELSE LET prefix == Slice(code, length)
         IN  IF prefix \in RULESETS_keys
             THEN Returned(PyStr(prefix))
             ELSE match_from(code, length - 1)

\* RULESETS.match(issue_code), issue_code a sequence of characters.
RULESETS_match(code) == match_from(code, 3)

\* RULESETS.get(key)
RULESETS_get(key) ==
    LET m == RULESETS_match(key)
    IN  [exc |-> "", v |-> DictGet(RULESETS__dict__, m.v, SEVERITY_NULL), w |-> m.w]

\* get_severity(issue_code)
get_severity(code) == RULESETS_get(code)

-----------------------------------------------------------------------------
(* REPRESENTING ISSUES *)

\* A deserialized JSON object is a function from its keys to its values.
\* d.get(key)
RawGet(d, key) == IF key \in DOMAIN d THEN d[key] ELSE PyNone

\* Location(**d)
Location(d) ==
    IF DOMAIN d = {"column", "row"}
    THEN Returned([t |-> "Location", column |-> d.column, row |-> d.row])
    ELSE Raised("TypeError")

\* Edits(**d) with Edits.__post_init__
Edits(d) ==
    IF DOMAIN d # {"content", "end_location", "location"}
    THEN Raised("TypeError")
    ELSE LET end_location == Location(d.end_location)
             location == Location(d.location)
         IN  IF end_location.exc # "" THEN end_location
             ELSE IF location.exc # "" THEN location
             ELSE Returned([t |-> "Edits", content |-> d.content,
                            end_location |-> end_location.v,
                            location |-> location.v])

\* Fix with the bug of keeping a fix that has no edit: edits[:1] in place
\* of edits[0].
Fix_without_edits(d) ==
    IF DOMAIN d # {"applicability", "edits", "message"}
    THEN Raised("TypeError")
    ELSE IF Len(d.edits) = 0
    THEN Returned([t |-> "Fix", applicability |-> d.applicability,
                   edits |-> PyNone, message |-> d.message])
    ELSE LET edits == Edits(d.edits[1])
         IN  IF edits.exc # "" THEN edits
             ELSE Returned([t |-> "Fix", applicability |-> d.applicability,
                            edits |-> edits.v, message |-> d.message])

\* Fix(**d) with Fix.__post_init__, which keeps the first edit only.
Fix(d) ==
    IF DOMAIN d # {"applicability", "edits", "message"}
    THEN Raised("TypeError")
    ELSE IF Len(d.edits) = 0
    THEN Raised("IndexError")
    ELSE LET edits == Edits(d.edits[1])
         IN  IF edits.exc # "" THEN edits
             ELSE Returned([t |-> "Fix", applicability |-> d.applicability,
                            edits |-> edits.v, message |-> d.message])

\* Issue(...): the dataclass; two issues are equal when their fields are.
Issue(cell, code, end_location, filename, fix, location, message, noqa_row, url, severity) ==
    [t |-> "Issue", cell |-> cell, code |-> code, end_location |-> end_location,
     filename |-> filename, fix |-> fix, location |-> location,
     message |-> message, noqa_row |-> noqa_row, url |-> url,
     severity |-> severity]

-----------------------------------------------------------------------------
(* ISSUE MAPPING *)

\* create_issue(serialized_issue): the arguments of Issue(...) are evaluated
\* in the order they are written, and the first failure is the outcome.
create_issue(d) ==
    IF "code" \notin DOMAIN d THEN Raised("KeyError")
    ELSE IF "end_location" \notin DOMAIN d THEN Raised("KeyError")
    ELSE LET end_location == Location(d.end_location) IN
    IF end_location.exc # "" THEN end_location
    ELSE IF "filename" \notin DOMAIN d THEN Raised("KeyError")
    ELSE LET fix == IF RawGet(d, "fix") # PyNone THEN Fix(d.fix) ELSE Returned(PyNone) IN
    IF fix.exc # "" THEN fix
    ELSE IF "location" \notin DOMAIN d THEN Raised("KeyError")
    ELSE LET location == Location(d.location) IN
    IF location.exc # "" THEN location
    ELSE IF "message" \notin DOMAIN d THEN Raised("KeyError")
    ELSE IF "url" \notin DOMAIN d THEN Raised("KeyError")
    ELSE LET severity == get_severity(d.code.s) IN
         [exc |-> "",
          v |-> Issue(RawGet(d, "cell"), d.code, end_location.v, d.filename, fix.v,
                      location.v, d.message, RawGet(d, "noqa_row"), d.url,
                      severity.v),
          w |-> severity.w]

\* The five filters.
Filter ==
    {PyStr(<<"f", "i", "l", "e", "n", "a", "m", "e">>),
     PyStr(<<"r", "u", "l", "e", "s", "e", "t">>),
     PyStr(<<"c", "o", "d", "e">>),
     PyStr(<<"s", "e", "v", "e", "r", "i", "t", "y">>),
     PyStr(<<"f", "i", "x">>)}

\* The IssueMapping object as one record of its attributes.
self ==
    [_values |-> _values, _file_map |-> _file_map, _ruleset_map |-> _ruleset_map,
     _code_map |-> _code_map, _severity_map |-> _severity_map,
     _fix_map |-> _fix_map]

\* IssueMapping.__init__
IssueMapping__init__ ==
    [_values |-> <<>>, _file_map |-> <<>>, _ruleset_map |-> <<>>,
     _code_map |-> <<>>, _severity_map |-> <<>>, _fix_map |-> <<>>]

\* id(issue) of an issue object created now: an identity no live object has.
id_new(s) == Len(s._values) + 1

\* _add_to_map with the bug of assigning the bucket instead of adding to it:
\* mapping[key] = {value}.
_add_to_map_overwrite(mapping, key, value) == DictSet(mapping, key, {value})

\* IssueMapping._add_to_map(mapping, key, value): the mapping afterwards.
_add_to_map(mapping, key, value) ==
    LET m == IF ~DictHas(mapping, key) THEN DictSet(mapping, key, {}) ELSE mapping
    IN  DictSet(m, key, DictGet(m, key, {}) \cup {value})

\* add with the bug of filing every issue in the fix index, the ones without
\* a fix under None.
add_fix_unchecked(s, issue, issue_key) ==
    LET s1 == [s EXCEPT !._values = DictSet(@, issue_key, issue)]
        s2 == [s1 EXCEPT !._file_map = _add_to_map(@, issue.filename, issue_key)]
        m  == RULESETS_match(issue.code.s)
        s3 == [s2 EXCEPT !._ruleset_map = _add_to_map(@, m.v, issue_key)]
        s4 == [s3 EXCEPT !._code_map = _add_to_map(@, issue.code, issue_key)]
    IN  IF issue.severity.t # "SEVERITY"
        THEN [self |-> s4, out |-> [exc |-> "AttributeError", v |-> PyNone, w |-> m.w]]
        ELSE LET s5 == [s4 EXCEPT !._severity_map =
                            _add_to_map(@, PyStr(issue.severity.name), issue_key)]
                 s6 == [s5 EXCEPT !._fix_map = _add_to_map(@, issue.fix, issue_key)]
             IN  [self |-> s6, out |-> [exc |-> "", v |-> PyNone, w |-> m.w]]

\* IssueMapping.add(issue): the object afterwards and the outcome of the
\* call.  issue.severity.name fails when the severity is no SEVERITY member,
\* after the first four updates were made.
add(s, issue, issue_key) ==
    LET s1 == [s EXCEPT !._values = DictSet(@, issue_key, issue)]
        s2 == [s1 EXCEPT !._file_map = _add_to_map(@, issue.filename, issue_key)]
        m  == RULESETS_match(issue.code.s)
        s3 == [s2 EXCEPT !._ruleset_map = _add_to_map(@, m.v, issue_key)]
        s4 == [s3 EXCEPT !._code_map = _add_to_map(@, issue.code, issue_key)]
    IN  IF issue.severity.t # "SEVERITY"
        THEN [self |-> s4, out |-> [exc |-> "AttributeError", v |-> PyNone, w |-> m.w]]
        ELSE LET s5 == [s4 EXCEPT !._severity_map =
                            _add_to_map(@, PyStr(issue.severity.name), issue_key)]
                 s6 == IF issue.fix # PyNone
                       THEN [s5 EXCEPT !._fix_map = _add_to_map(@, issue.fix, issue_key)]
                       ELSE s5
             IN  [self |-> s6, out |-> [exc |-> "", v |-> PyNone, w |-> m.w]]

\* _retrieve_issues with the bug of subscripting the map, inner_map[key],
\* which raises KeyError for a key the map does not have.
_retrieve_issues_subscript(s, key, inner_map) ==
    IF DictHas(inner_map, key)
    THEN Returned({DictGet(s._values, hash_key, PyNone) :
                      hash_key \in DictGet(inner_map, key, {})})
    ELSE Raised("KeyError")

\* IssueMapping._retrieve_issues(key, inner_map): a set of Issue objects, in
\* which equal issues are one element.
_retrieve_issues(s, key, inner_map) ==
    Returned({DictGet(s._values, hash_key, PyNone) : hash_key \in DictGet(inner_map, key, {})})

\* _match_filter with the bug of a default case that falls back on the
\* filename map instead of raising.
_match_filter_default(s, issue_filter) ==
    CASE issue_filter = PyStr(<<"r", "u", "l", "e", "s", "e", "t">>) ->
            Returned(s._ruleset_map)
      [] issue_filter = PyStr(<<"c", "o", "d", "e">>) ->
            Returned(s._code_map)
      [] issue_filter = PyStr(<<"s", "e", "v", "e", "r", "i", "t", "y">>) ->
            Returned(s._severity_map)
      [] issue_filter = PyStr(<<"f", "i", "x">>) ->
            Returned(s._fix_map)
      [] OTHER -> Returned(s._file_map)

\* IssueMapping._match_filter(issue_filter)
_match_filter(s, issue_filter) ==
    CASE issue_filter = PyStr(<<"f", "i", "l", "e", "n", "a", "m", "e">>) ->
            Returned(s._file_map)
      [] issue_filter = PyStr(<<"r", "u", "l", "e", "s", "e", "t">>) ->
            Returned(s._ruleset_map)
      [] issue_filter = PyStr(<<"c", "o", "d", "e">>) ->
            Returned(s._code_map)
      [] issue_filter = PyStr(<<"s", "e", "v", "e", "r", "i", "t", "y">>) ->
            Returned(s._severity_map)
      [] issue_filter = PyStr(<<"f", "i", "x">>) ->
            Returned(s._fix_map)
      [] OTHER -> Raised("ValueError")

\* The builtin function `filter`, which IssueMapping.get compares with None.
builtin_filter == PyFunction(<<"f", "i", "l", "t", "e", "r">>)

\* IssueMapping.get(key, issue_filter)
get(s, key, issue_filter) ==
    IF builtin_filter = PyNone
    THEN _retrieve_issues(s, key, s._values)
    ELSE LET m == _match_filter(s, issue_filter)
         IN  IF m.exc # "" THEN m ELSE _retrieve_issues(s, key, m.v)

\* IssueMapping.values(): the issues, in the order they were added.
values(s) == Returned([i \in 1..Len(s._values) |-> s._values[i].v])

\* No generator: iter was not called yet.
NoGen == [state |-> "none"]

\* IssueMapping.iter(issue_filter): the filter is matched at the call; the
\* generator expression takes the iterator of the dictionary's keys at once
\* (the dictionary's size is recorded) and evaluates its items lazily.
\* `yielded` and `adds` record the generator's history.
iter(s, issue_filter) ==
    LET issue_map == _match_filter(s, issue_filter)
    IN  IF issue_map.exc # ""
        THEN [gen |-> gen, out |-> issue_map]
        ELSE [gen |-> [state |-> "active", issue_filter |-> issue_filter,
                       di_pos |-> 0, di_used |-> Len(issue_map.v),
                       yielded |-> <<>>, adds |-> 0],
              out |-> Returned([t |-> "generator"])]

\* A generator that has ended, by exhaustion or by an exception.
Finished(g) == [g EXCEPT !.state = "finished"]

\* gen_next with the bug of walking the keys backwards, as
\* reversed(issue_map.keys()) would.
gen_next_reversed(s, g) ==
    IF g.state # "active"
    THEN [gen |-> g, out |-> Raised("StopIteration")]
    ELSE LET issue_map == _match_filter(s, g.issue_filter).v
         IN  IF g.di_used # Len(issue_map)
             THEN [gen |-> Finished(g), out |-> Raised("RuntimeError")]
             ELSE IF g.di_pos >= Len(issue_map)
             THEN [gen |-> Finished(g), out |-> Raised("StopIteration")]
             ELSE LET key == issue_map[Len(issue_map) - g.di_pos].k
                      item == <<key, _retrieve_issues(s, key, issue_map).v>>
                  IN  [gen |-> [g EXCEPT !.di_pos = @ + 1,
                                         !.yielded = Append(@, item)],
                       out |-> Returned(item)]

\* next(generator): one step of the generator expression of iter over the
\* keys of the live dictionary; the dictionary iterator fails when the
\* dictionary's size is not the one recorded.
gen_next(s, g) ==
    IF g.state # "active"
    THEN [gen |-> g, out |-> Raised("StopIteration")]
    ELSE LET issue_map == _match_filter(s, g.issue_filter).v
         IN  IF g.di_used # Len(issue_map)
             THEN [gen |-> Finished(g), out |-> Raised("RuntimeError")]
             ELSE IF g.di_pos >= Len(issue_map)
             THEN [gen |-> Finished(g), out |-> Raised("StopIteration")]
             ELSE LET key == issue_map[g.di_pos + 1].k
                      item == <<key, _retrieve_issues(s, key, issue_map).v>>
                  IN  [gen |-> [g EXCEPT !.di_pos = @ + 1,
                                         !.yielded = Append(@, item)],
                       out |-> Returned(item)]

\* The loop of collect_issues from the n-th record on: create_issue and
\* add are called for each record in turn, and an exception of either ends
\* the call.
RECURSIVE collect_loop(_, _, _, _)
collect_loop(ruff_file_, n, issue_mapping, w) ==
    IF n > Len(ruff_file_)
    THEN [exc |-> "", v |-> issue_mapping, w |-> w]
    ELSE LET c == create_issue(ruff_file_[n])
         IN  IF c.exc # ""
             THEN [exc |-> c.exc, v |-> PyNone, w |-> w \o c.w]
             ELSE LET a == add(issue_mapping, c.v, id_new(issue_mapping))
                  IN  IF a.out.exc # ""
                      THEN [exc |-> a.out.exc, v |-> PyNone, w |-> w \o c.w \o a.out.w]
                      ELSE collect_loop(ruff_file_, n + 1, a.self, w \o c.w \o a.out.w)

\* collect_issues(ruff_file): the IssueMapping returned, or the exception.
collect_issues(ruff_file_) == collect_loop(ruff_file_, 1, IssueMapping__init__, <<>>)

-----------------------------------------------------------------------------
(* ruff_reporter/quality.py: CODE SCORING *)

\* A Python float is modelled by the rational number it stands for, kept in
\* lowest terms with a positive denominator, so that equal numbers are equal
\* values.  The scores compared here are far more than a rounding error
\* away from each other and from the thresholds of the grade scale unless
\* they are equal to them.
RECURSIVE GCD(_, _)
GCD(a, b) == IF b = 0 THEN a ELSE GCD(b, a % b)

Abs(n) == IF n < 0 THEN -n ELSE n

PyFloat(num, den) ==
    LET g == GCD(Abs(num), Abs(den))
        sign == IF den < 0 THEN -1 ELSE 1
    IN  [t |-> "float", num |-> sign * (num \div g), den |-> sign * (den \div g)]

\* float(i) of an int
float(i) == PyFloat(i, 1)

\* a / b: ZeroDivisionError when b is zero.
truediv(a, b) ==
    IF b.num = 0 THEN Raised("ZeroDivisionError")
    ELSE Returned(PyFloat(a.num * b.den, a.den * b.num))

\* a - b
sub(a, b) == PyFloat(a.num * b.den - b.num * a.den, a.den * b.den)

\* a >= b and a < b
ge(a, b) == a.num * b.den >= b.num * a.den
lt(a, b) == a.num * b.den < b.num * a.den

_LINE_SCALING_FACTOR == 100

GRADE_SCALE ==
    <<<<float(97), PyStr(<<"A", "+">>)>>,
      <<float(93), PyStr(<<"A">>)>>,
      <<float(90), PyStr(<<"A", "-">>)>>,
      <<float(87), PyStr(<<"B", "+">>)>>,
      <<float(83), PyStr(<<"B">>)>>,
      <<float(80), PyStr(<<"B", "-">>)>>,
      <<float(77), PyStr(<<"C", "+">>)>>,
      <<float(73), PyStr(<<"C">>)>>,
      <<float(70), PyStr(<<"C", "-">>)>>,
      <<float(67), PyStr(<<"D", "+">>)>>,
      <<float(63), PyStr(<<"D">>)>>,
      <<float(60), PyStr(<<"D", "-">>)>>>>

\* generate_score with the bug of a score that is not scaled by the number
\* of lines: line_factor = _LINE_SCALING_FACTOR / _LINE_SCALING_FACTOR.
generate_score_unscaled(lines, fixed, info, best_practice, warnings, errors) ==
    IF fixed + info + best_practice + warnings + errors = 0
    THEN Returned(float(100))
    ELSE LET line_factor ==
                 truediv(float(_LINE_SCALING_FACTOR), float(_LINE_SCALING_FACTOR)).v
             unweighted_score ==
                 errors * 16 + warnings * 8 + best_practice * 4 + info * 2 + fixed * 1
             quotient == truediv(float(unweighted_score), line_factor)
         IN  IF quotient.exc # "" THEN quotient
             ELSE Returned(sub(float(100), quotient.v))

\* generate_score(lines, fixed, info, best_practice, warnings, errors)
generate_score(lines, fixed, info, best_practice, warnings, errors) ==
    IF fixed + info + best_practice + warnings + errors = 0
    THEN Returned(float(100))
    ELSE LET line_factor == truediv(float(lines), float(_LINE_SCALING_FACTOR)).v
             unweighted_score ==
                 errors * 16 + warnings * 8 + best_practice * 4 + info * 2 + fixed * 1
             quotient == truediv(float(unweighted_score), line_factor)
         IN  IF quotient.exc # "" THEN quotient
             ELSE Returned(sub(float(100), quotient.v))

\* score_to_letter with the bug of a strict comparison: score > grade.
RECURSIVE score_to_letter_strict(_, _)
score_to_letter_strict(score, n) ==
    IF n > Len(GRADE_SCALE) THEN PyStr(<<"F">>)
    ELSE IF ~ge(GRADE_SCALE[n][1], score) THEN GRADE_SCALE[n][2]
    ELSE score_to_letter_strict(score, n + 1)

\* The loop of score_to_letter from the n-th entry of GRADE_SCALE on.
RECURSIVE score_to_letter_from(_, _)
score_to_letter_from(score, n) ==
    IF n > Len(GRADE_SCALE) THEN PyStr(<<"F">>)
    ELSE IF ge(score, GRADE_SCALE[n][1]) THEN GRADE_SCALE[n][2]
    ELSE score_to_letter_from(score, n + 1)

\* score_to_letter(score)
score_to_letter(score) == score_to_letter_from(score, 1)

\* Statistics(...) with Statistics.__post_init__, which replaces the score
\* and the grade passed by the ones computed from the counts.
Statistics(lines, issues, fixed, info, best_practice, warning, error, grade, score, max_severity) ==
    LET score_ == generate_score(lines, fixed, info, best_practice, warning, error)
    IN  IF score_.exc # "" THEN score_
        ELSE Returned([t |-> "Statistics", lines |-> lines, issues |-> issues,
                       fixed |-> fixed, info |-> info,
                       best_practice |-> best_practice, warning |-> warning,
                       error |-> error, grade |-> score_to_letter(score_.v),
                       score |-> score_.v, max_severity |-> max_severity])

\* source_code.count("\n")
count_newlines(source_code) ==
    Cardinality({i \in 1..Len(source_code) : source_code[i] = "\n"})

\* count_severity counting the issues of the given severity or a higher one.
count_severity_at_least(issues, member) ==
    Cardinality({issue \in issues :
                    /\ issue.severity.t = "SEVERITY"
                    /\ issue.severity.value >= member.value})

\* The number of the issues that have the given severity.
count_severity(issues, member) ==
    Cardinality({issue \in issues : issue.severity = member})

\* max_severity_of with the bug of the default of the Statistics field:
\* default=SEVERITY.NULL.
max_severity_of_null(issues) ==
    IF issues = {} THEN Returned(SEVERITY_NULL)
    ELSE IF Cardinality(issues) = 1
    THEN Returned((CHOOSE issue \in issues : TRUE).severity)
    ELSE IF \E issue \in issues : issue.severity.t # "SEVERITY"
    THEN Raised("TypeError")
    ELSE Returned(CHOOSE member \in {issue.severity : issue \in issues} :
                      \A issue \in issues : issue.severity.value <= member.value)

\* max((issue.severity for issue in issues), default=SEVERITY.NO_ISSUES):
\* a severity that is no SEVERITY member cannot be compared with another.
max_severity_of(issues) ==
    IF issues = {} THEN Returned(SEVERITY_NO_ISSUES)
    ELSE IF Cardinality(issues) = 1
    THEN Returned((CHOOSE issue \in issues : TRUE).severity)
    ELSE IF \E issue \in issues : issue.severity.t # "SEVERITY"
    THEN Raised("TypeError")
    ELSE Returned(CHOOSE member \in {issue.severity : issue \in issues} :
                      \A issue \in issues : issue.severity.value <= member.value)

\* calculate_statistics counting as fixed every issue of severity FIXED or of
\* a lower one.
calculate_statistics_fixed_or_lower(issues, source_code) ==
    LET max_severity == max_severity_of(issues)
    IN  IF max_severity.exc # "" THEN max_severity
        ELSE Statistics(count_newlines(source_code) + 1,
                        Cardinality(issues),
                        Cardinality(issues) - count_severity_at_least(issues, SEVERITY_INFO),
                        count_severity(issues, SEVERITY_INFO),
                        count_severity(issues, SEVERITY_BEST_PRACTICE),
                        count_severity(issues, SEVERITY_WARNING),
                        count_severity(issues, SEVERITY_ERROR),
                        PyStr(<<"F">>), float(0), max_severity.v)

\* calculate_statistics(issues, source_code)
calculate_statistics(issues, source_code) ==
    LET max_severity == max_severity_of(issues)
    IN  IF max_severity.exc # "" THEN max_severity
        ELSE Statistics(count_newlines(source_code) + 1,
                        Cardinality(issues),
                        count_severity(issues, SEVERITY_FIXED),
                        count_severity(issues, SEVERITY_INFO),
                        count_severity(issues, SEVERITY_BEST_PRACTICE),
                        count_severity(issues, SEVERITY_WARNING),
                        count_severity(issues, SEVERITY_ERROR),
                        PyStr(<<"F">>), float(0), max_severity.v)

-----------------------------------------------------------------------------
(* original_report/issues.py: the earlier implementation *)

orig_SEVERITY_NULL == SevMember(<<"N", "U", "L", "L">>, -1)
orig_SEVERITY_FIXED == SevMember(<<"F", "I", "X", "E", "D">>, 0)
orig_SEVERITY_INFO == SevMember(<<"I", "N", "F", "O">>, 1)
orig_SEVERITY_BEST_PRACTICE ==
    SevMember(<<"B", "E", "S", "T", "_", "P", "R", "A", "C", "T", "I", "C", "E">>, 2)
orig_SEVERITY_WARNING == SevMember(<<"W", "A", "R", "N", "I", "N", "G">>, 3)
orig_SEVERITY_ERROR == SevMember(<<"E", "R", "R", "O", "R">>, 4)

orig_SEVERITY ==
    {orig_SEVERITY_NULL, orig_SEVERITY_FIXED, orig_SEVERITY_INFO,
     orig_SEVERITY_BEST_PRACTICE, orig_SEVERITY_WARNING, orig_SEVERITY_ERROR}

\* SEVERITY[name] of original_report
orig_SEVERITY_named(name) == CHOOSE m \in orig_SEVERITY : m.name = name

\* The class body of RULESETS is the same in both files, family by family;
\* the members it names are those of the file's own SEVERITY.
orig_RULESETS ==
    [i \in 1..Len(RULESETS) |->
        <<RULESETS[i][1], orig_SEVERITY_named(RULESETS[i][2].name)>>]

\* RULESETS.keys of original_report: the class has the same attribute names.
orig_RULESETS_keys ==
    {key \in RULESETS_dir : ~Contains(key, <<"_", "_">>)} \cup RULESETS_methods

orig_RULESETS__dict__ ==
    [i \in 1..Len(orig_RULESETS) |->
        [k |-> PyStr(orig_RULESETS[i][1]), v |-> orig_RULESETS[i][2]]]
      \o <<[k |-> PyStr(<<"k", "e", "y", "s">>), v |-> PyCachedProperty(<<"k", "e", "y", "s">>)],
           [k |-> PyStr(<<"g", "e", "t">>), v |-> PyFunction(<<"g", "e", "t">>)],
           [k |-> PyStr(<<"m", "a", "t", "c", "h">>),
            v |-> PyFunction(<<"m", "a", "t", "c", "h">>)]>>

RECURSIVE orig_match_from(_, _)
orig_match_from(code, length) ==
    IF length = 0
    THEN [exc |-> "", v |-> PyNone, w |-> <<code>>]
    ELSE LET prefix == Slice(code, length)
         IN  IF prefix \in orig_RULESETS_keys
             THEN Returned(PyStr(prefix))
             ELSE orig_match_from(code, length - 1)

orig_RULESETS_match(code) == orig_match_from(code, 3)

orig_RULESETS_get(key) ==
    LET m == orig_RULESETS_match(key)
    IN  [exc |-> "", v |-> DictGet(orig_RULESETS__dict__, m.v, orig_SEVERITY_NULL),
         w |-> m.w]

orig_get_severity(code) == orig_RULESETS_get(code)

\* The last position of character c in s, 0 when there is none.
LastIndexOf(s, c) ==
    IF \E i \in 1..Len(s) : s[i] = c
    THEN CHOOSE i \in 1..Len(s) : s[i] = c /\ \A j \in (i + 1)..Len(s) : s[j] # c
    ELSE 0

\* Path(s).stem: the last component of the path without its last suffix.
PathStem(s) ==
    LET name == SubSeq(s, LastIndexOf(s, "/") + 1, Len(s))
        i == LastIndexOf(name, ".")
    IN  IF 1 < i /\ i < Len(name) THEN SubSeq(name, 1, i - 1) ELSE name

\* create_issue of original_report: that of ruff_reporter, but the filename
\* is the stem of the path and the severity is a member of its own SEVERITY.
orig_create_issue(d) ==
    LET c == create_issue(d)
        severity == orig_get_severity(d.code.s)
    IN  IF c.exc # "" THEN c
        ELSE [exc |-> "",
              v |-> [c.v EXCEPT !.filename = PyStr(PathStem(d.filename.s)),
                                !.severity = severity.v],
              w |-> severity.w]

\* IssueMapping.add of original_report
orig_add(s, issue, issue_key) ==
    LET s1 == [s EXCEPT !._values = DictSet(@, issue_key, issue)]
        s2 == [s1 EXCEPT !._file_map = _add_to_map(@, issue.filename, issue_key)]
        m  == orig_RULESETS_match(issue.code.s)
        s3 == [s2 EXCEPT !._ruleset_map = _add_to_map(@, m.v, issue_key)]
        s4 == [s3 EXCEPT !._code_map = _add_to_map(@, issue.code, issue_key)]
    IN  IF issue.severity.t # "SEVERITY"
        THEN [self |-> s4, out |-> [exc |-> "AttributeError", v |-> PyNone, w |-> m.w]]
        ELSE LET s5 == [s4 EXCEPT !._severity_map =
                            _add_to_map(@, PyStr(issue.severity.name), issue_key)]
                 s6 == IF issue.fix # PyNone
                       THEN [s5 EXCEPT !._fix_map = _add_to_map(@, issue.fix, issue_key)]
                       ELSE s5
             IN  [self |-> s6, out |-> [exc |-> "", v |-> PyNone, w |-> m.w]]

\* The intersection of the sets of a non-empty sequence of sets.
RECURSIVE Intersection(_)
Intersection(sets) ==
    IF Len(sets) = 1 THEN sets[1] ELSE sets[1] \cap Intersection(Tail(sets))

\* IssueMapping._retrieve_issues(key, inner_map) of original_report: the set
\* of identities filed under a str key, the intersection of the sets filed
\* under the keys of a list.
orig__retrieve_issues(key, inner_map) ==
    IF key.t = "str"
    THEN Returned(DictGet(inner_map, key, {}))
    ELSE IF key.t = "list"
    THEN IF Len(key.items) = 0
         THEN Raised("TypeError")
         ELSE Returned(Intersection([n \in 1..Len(key.items) |->
                                        DictGet(inner_map, key.items[n], {})]))
    ELSE Raised("TypeError")

\* IssueMapping.get_one_filter(issue_filters, key)
orig_get_one_filter(s, issue_filters, key) ==
    CASE issue_filters = PyStr(<<"f", "i", "l", "e", "n", "a", "m", "e">>) ->
            orig__retrieve_issues(key, s._file_map)
      [] issue_filters = PyStr(<<"r", "u", "l", "e", "s", "e", "t">>) ->
            orig__retrieve_issues(key, s._ruleset_map)
      [] issue_filters = PyStr(<<"c", "o", "d", "e">>) ->
            orig__retrieve_issues(key, s._ruleset_map)
      [] issue_filters = PyStr(<<"s", "e", "v", "e", "r", "i", "t", "y">>) ->
            orig__retrieve_issues(key, s._severity_map)
      [] issue_filters = PyStr(<<"f", "i", "x">>) ->
            orig__retrieve_issues(key, s._fix_map)
      [] OTHER -> Raised("ValueError")

\* IssueMapping.get_multiple_filters(issue_filters, key): the list of the
\* lookups, or the first failure among them.
orig_get_multiple_filters(s, issue_filters, key) ==
    LET one(n) == orig_get_one_filter(s, issue_filters[n], key)
        failed == {n \in 1..Len(issue_filters) : one(n).exc # ""}
    IN  IF failed # {}
        THEN one(CHOOSE n \in failed : \A m \in failed : n <= m)
        ELSE Returned([n \in 1..Len(issue_filters) |-> one(n).v])

\* IssueMapping.get(issue_filters, key): dispatch on the type of issue_filters.
orig_get(s, issue_filters, key) ==
    IF issue_filters.t = "str" THEN orig_get_one_filter(s, issue_filters, key)
    ELSE IF issue_filters.t = "list"
    THEN orig_get_multiple_filters(s, issue_filters.items, key)
    ELSE Raised("TypeError")

\* IssueMapping.get_all()
orig_get_all(s) == [i \in 1..Len(s._values) |-> s._values[i].v]

\* The counter methods, without their caches.
orig_get_total_issues(s) == PyInt(Len(orig_get_all(s)))
orig_get_total_files(s) == PyInt(Len(DictKeys(s._file_map)))
orig_get_total_errors(s) ==
    PyInt(Cardinality(orig_get(s, PyStr(<<"s", "e", "v", "e", "r", "i", "t", "y">>),
                               PyStr(orig_SEVERITY_ERROR.name)).v))
orig_get_total_warnings(s) ==
    PyInt(Cardinality(orig_get(s, PyStr(<<"s", "e", "v", "e", "r", "i", "t", "y">>),
                               PyStr(orig_SEVERITY_WARNING.name)).v))
orig_get_total_best_practices(s) ==
    PyInt(Cardinality(orig_get(s, PyStr(<<"s", "e", "v", "e", "r", "i", "t", "y">>),
                               PyStr(orig_SEVERITY_BEST_PRACTICE.name)).v))
orig_get_total_info(s) ==
    PyInt(Cardinality(orig_get(s, PyStr(<<"s", "e", "v", "e", "r", "i", "t", "y">>),
                               PyStr(orig_SEVERITY_INFO.name)).v))
orig_get_total_fixed(s) == PyInt(Len(s._fix_map))
orig_get_highest_severity(s) ==
    LET members == {orig_SEVERITY_named(s._severity_map[i].k.s) :
                        i \in 1..Len(s._severity_map)}
        max_security == IF members = {} THEN orig_SEVERITY_NULL
                        ELSE CHOOSE m \in members : \A n \in members : n.value <= m.value
    IN  PyStr(max_security.name)

\* The counter methods of IssueMapping.
Counters ==
    {"get_total_issues", "get_total_files", "get_total_errors",
     "get_total_warnings", "get_total_best_practices", "get_total_info",
     "get_total_fixed", "get_highest_severity"}

\* What the body of a counter method computes on the index s.
CounterBody(counter, s) ==
    CASE counter = "get_total_issues" -> orig_get_total_issues(s)
      [] counter = "get_total_files" -> orig_get_total_files(s)
      [] counter = "get_total_errors" -> orig_get_total_errors(s)
      [] counter = "get_total_warnings" -> orig_get_total_warnings(s)
      [] counter = "get_total_best_practices" -> orig_get_total_best_practices(s)
      [] counter = "get_total_info" -> orig_get_total_info(s)
      [] counter = "get_total_fixed" -> orig_get_total_fixed(s)
      [] counter = "get_highest_severity" -> orig_get_highest_severity(s)

\* A new lru_cache: no entry.
EmptyCache == [counter \in Counters |-> <<>>]

\* @lru_cache(maxsize=1) around a counter method, called on the one index:
\* the entry made by the first call, keyed by the index object, answers
\* every later call.
lru_cache(counter, s, entries) ==
    IF entries[counter] # <<>>
    THEN [cache |-> entries, out |-> Returned(entries[counter][1])]
    ELSE LET value == CounterBody(counter, s)
         IN  [cache |-> [entries EXCEPT ![counter] = <<value>>],
              out |-> Returned(value)]

-----------------------------------------------------------------------------
(* Inputs *)

\* The largest number of add calls on one index.
MaxAdd == 3

mod_py == <<"m", "o", "d", ".", "p", "y">>
pkg_a_py == <<"p", "k", "g", "/", "a", ".", "p", "y">>

\* A location and a fix as they stand in a deserialized ruff report.
RawLocation(column, row) == [column |-> PyInt(column), row |-> PyInt(row)]
RawFix ==
    [applicability |-> PyStr(<<"s", "a", "f", "e">>),
     edits |-> <<[content |-> PyStr(<<>>), end_location |-> RawLocation(9, 1),
                  location |-> RawLocation(1, 1)]>>,
     message |-> PyStr(<<"f", "i", "x">>)]

\* One record of a ruff report.
RawIssue(code, filename, fix) ==
    [cell |-> PyNone, code |-> PyStr(code), end_location |-> RawLocation(9, 1),
     filename |-> PyStr(filename), fix |-> fix, location |-> RawLocation(1, 1),
     message |-> PyStr(<<"m">>), noqa_row |-> PyInt(1), url |-> PyStr(<<"u">>)]

\* The records the index is built from.
Records ==
    {RawIssue(<<"E", "5", "0", "1">>, mod_py, PyNone),
     RawIssue(<<"A", "N", "N", "0", "0", "1">>, mod_py, PyNone),
     RawIssue(<<"W", "2", "9", "1">>, mod_py, RawFix),
     RawIssue(<<"Z", "Z", "Z", "1">>, pkg_a_py, PyNone),
     RawIssue(<<"g", "e", "t", "1">>, pkg_a_py, PyNone)}

\* The issues made from the records.
RecordIssues == {create_issue(d).v : d \in Records}

\* The keys looked up by get: a filename, a code, a rule family, None, two
\* severity names, a fix and a key no issue has.
QueryKeys ==
    {PyStr(mod_py), PyStr(<<"E", "5", "0", "1">>), PyStr(<<"E">>), PyNone,
     PyStr(SEVERITY_ERROR.name), PyStr(SEVERITY_NULL.name), Fix(RawFix).v,
     PyStr(<<"n", "o", "k", "e", "y">>)}

\* The filter arguments: the five filters, an unknown name, None and a list.
FilterArgs ==
    Filter \cup {PyStr(<<"b", "o", "g", "u", "s">>), PyNone,
                 [t |-> "list",
                  items |-> <<PyStr(<<"c", "o", "d", "e">>),
                              PyStr(<<"r", "u", "l", "e", "s", "e", "t">>)>>]}

\* The arguments of the get steps: a key known in one dimension, a key
\* known in another, None, a fix and a key no issue has; the five filters,
\* an unknown name and a list.
GetKeys ==
    {PyStr(mod_py), PyStr(<<"E", "5", "0", "1">>), PyNone, Fix(RawFix).v,
     PyStr(<<"n", "o", "k", "e", "y">>)}
GetFilters == FilterArgs \ {PyNone}

\* The arguments of the iter steps: the five filters and an unknown name.
IterFilters == Filter \cup {PyStr(<<"b", "o", "g", "u", "s">>)}

\* The records the traversed index is built from: one unfixed issue of
\* mod.py stands for the two.
IterRecords == Records \ {RawIssue(<<"A", "N", "N", "0", "0", "1">>, mod_py, PyNone)}

\* The codes handed to the classifier: the prefixes of the rule families and
\* of the method names, and some stems no family starts, each followed by
\* digits.
CodeStems ==
    {Slice(name, n) : name \in RULESETS_dir, n \in 0..5}
      \cup {<<"Z", "Z", "Z">>, <<"Z">>, <<"P">>, <<"P", "L", "X">>, <<"_", "_">>}
CodeDigits == {<<>>, <<"1">>, <<"0", "0", "1">>, <<"4", "0", "1">>}
Codes == {stem \o digits : stem \in CodeStems, digits \in CodeDigits}

-----------------------------------------------------------------------------
(* The index of ruff_reporter: add, get, values *)

Call(op, arg, out) == [op |-> op, arg |-> arg, out |-> out]

\* The state an IssueMapping has after construction.
InitIndex ==
    /\ _values = IssueMapping__init__._values
    /\ _file_map = IssueMapping__init__._file_map
    /\ _ruleset_map = IssueMapping__init__._ruleset_map
    /\ _code_map = IssueMapping__init__._code_map
    /\ _severity_map = IssueMapping__init__._severity_map
    /\ _fix_map = IssueMapping__init__._fix_map

SetIndex(s) ==
    /\ _values' = s._values
    /\ _file_map' = s._file_map
    /\ _ruleset_map' = s._ruleset_map
    /\ _code_map' = s._code_map
    /\ _severity_map' = s._severity_map
    /\ _fix_map' = s._fix_map

index == <<_values, _file_map, _ruleset_map, _code_map, _severity_map, _fix_map>>

Init ==
    /\ InitIndex
    /\ cache = EmptyCache
    /\ gen = NoGen
    /\ issue_code = <<>>
    /\ serialized_issue = PyNone
    /\ ruff_file = <<>>
    /\ statistics = PyNone
    /\ added = <<>>
    /\ ret = Call("__init__", <<>>, Returned(PyNone))

\* One iteration of collect_issues: issue_mapping.add(create_issue(issue)).
\* A generator in use sees the add.
Add(d) ==
    /\ Len(_values) < MaxAdd
    /\ LET c == create_issue(d)
           a == add(self, c.v, id_new(self))
       IN  IF c.exc # ""
           THEN /\ ret' = Call("create_issue", d, c)
                /\ UNCHANGED <<index, gen, added>>
           ELSE /\ SetIndex(a.self)
                /\ ret' = Call("add", c.v, [a.out EXCEPT !.w = c.w \o @])
                /\ added' = Append(added, [issue_key |-> id_new(self), issue |-> c.v,
                                           exc |-> a.out.exc])
                /\ gen' = IF gen.state = "none" THEN gen
                          ELSE [gen EXCEPT !.adds = @ + 1]
    /\ UNCHANGED <<cache, issue_code>>
    /\ UNCHANGED <<serialized_issue, ruff_file, statistics>>

\* issue_mapping.get(key, issue_filter)
Get(key, issue_filter) ==
    /\ ret' = Call("get", [key |-> key, issue_filter |-> issue_filter],
                   get(self, key, issue_filter))
    /\ UNCHANGED <<index, cache, gen, issue_code, added>>
    /\ UNCHANGED <<serialized_issue, ruff_file, statistics>>

\* issue_mapping.values()
Values ==
    /\ ret' = Call("values", <<>>, values(self))
    /\ UNCHANGED <<index, cache, gen, issue_code, added>>
    /\ UNCHANGED <<serialized_issue, ruff_file, statistics>>

Next ==
    \/ \E d \in Records : Add(d)
    \/ \E key \in GetKeys, issue_filter \in GetFilters : Get(key, issue_filter)
    \/ Values

Spec == Init /\ [][Next]_vars

-----------------------------------------------------------------------------
(* The index of ruff_reporter: add, iter and the consumption of the generator *)

\* generator = issue_mapping.iter(issue_filter)
Iter(issue_filter) ==
    /\ LET r == iter(self, issue_filter)
       IN  /\ gen' = r.gen
           /\ ret' = Call("iter", issue_filter, r.out)
    /\ UNCHANGED <<index, cache, issue_code, added>>
    /\ UNCHANGED <<serialized_issue, ruff_file, statistics>>

\* next(generator)
NextItem ==
    /\ gen.state # "none"
    /\ LET r == gen_next(self, gen)
       IN  /\ gen' = r.gen
           /\ ret' = Call("next", <<>>, r.out)
    /\ UNCHANGED <<index, cache, issue_code, added>>
    /\ UNCHANGED <<serialized_issue, ruff_file, statistics>>

NextIter ==
    \/ \E d \in IterRecords : Add(d)
    \/ \E issue_filter \in IterFilters : Iter(issue_filter)
    \/ NextItem

SpecIter == Init /\ [][NextIter]_vars

-----------------------------------------------------------------------------
(* The index of original_report: add and get *)

\* The filter arguments of original_report's get: the five filters, an
\* unknown name, None and lists of filters.
OrigFilterArgs ==
    Filter \cup {PyStr(<<"b", "o", "g", "u", "s">>), PyNone,
                 [t |-> "list", items |-> <<>>],
                 [t |-> "list",
                  items |-> <<PyStr(<<"c", "o", "d", "e">>),
                              PyStr(<<"r", "u", "l", "e", "s", "e", "t">>)>>],
                 [t |-> "list",
                  items |-> <<PyStr(<<"s", "e", "v", "e", "r", "i", "t", "y">>),
                              PyStr(<<"f", "i", "l", "e", "n", "a", "m", "e">>),
                              PyStr(<<"r", "u", "l", "e", "s", "e", "t">>)>>]}

\* The keys looked up by original_report's get: a filename (a stem), a
\* code, a rule family, a severity name, a key no issue has, a fix and a
\* list of keys.
OrigQueryKeys ==
    {PyStr(PathStem(mod_py)), PyStr(<<"E", "5", "0", "1">>), PyStr(<<"E">>),
     PyStr(orig_SEVERITY_ERROR.name), PyStr(<<"n", "o", "k", "e", "y">>),
     Fix(RawFix).v,
     [t |-> "list", items |-> <<PyStr(<<"E">>), PyStr(<<"W">>)>>]}

\* issue_mapping.add(create_issue(issue)) with original_report
OrigAdd(d) ==
    /\ Len(_values) < MaxAdd
    /\ LET c == orig_create_issue(d)
           a == orig_add(self, c.v, id_new(self))
       IN  IF c.exc # ""
           THEN /\ ret' = Call("create_issue", d, c)
                /\ UNCHANGED <<index, added>>
           ELSE /\ SetIndex(a.self)
                /\ ret' = Call("add", c.v, [a.out EXCEPT !.w = c.w \o @])
                /\ added' = Append(added, [issue_key |-> id_new(self), issue |-> c.v,
                                           exc |-> a.out.exc])
    /\ UNCHANGED <<cache, gen, issue_code>>
    /\ UNCHANGED <<serialized_issue, ruff_file, statistics>>

\* issue_mapping.get(issue_filters, key) with original_report
OrigGet(issue_filters, key) ==
    /\ ret' = Call("get", [issue_filters |-> issue_filters, key |-> key],
                   orig_get(self, issue_filters, key))
    /\ UNCHANGED <<index, cache, gen, issue_code, added>>
    /\ UNCHANGED <<serialized_issue, ruff_file, statistics>>

NextOrig ==
    \/ \E d \in Records : OrigAdd(d)
    \/ \E issue_filters \in OrigFilterArgs, key \in OrigQueryKeys :
          OrigGet(issue_filters, key)

SpecOrig == Init /\ [][NextOrig]_vars

-----------------------------------------------------------------------------
(* The index of original_report: add and the counters *)

\* The largest number of different counters read on one index.
MaxCounters == 1

\* issue_mapping.get_total_issues() and the seven other counters
Counter(counter) ==
    /\ \/ cache[counter] # <<>>
       \/ Cardinality({c \in Counters : cache[c] # <<>>}) < MaxCounters
    /\ LET r == lru_cache(counter, self, cache)
       IN  /\ cache' = r.cache
           /\ ret' = Call(counter, <<>>, r.out)
    /\ UNCHANGED <<index, gen, issue_code, added>>
    /\ UNCHANGED <<serialized_issue, ruff_file, statistics>>

NextCounters ==
    \/ \E d \in Records : OrigAdd(d)
    \/ \E counter \in Counters : Counter(counter)

SpecCounters == Init /\ [][NextCounters]_vars

-----------------------------------------------------------------------------
(* The classifier *)

InitClassify ==
    /\ InitIndex
    /\ cache = EmptyCache
    /\ gen = NoGen
    /\ issue_code \in Codes
    /\ serialized_issue = PyNone
    /\ ruff_file = <<>>
    /\ statistics = PyNone
    /\ added = <<>>
    /\ ret = Call("__init__", <<>>, Returned(PyNone))

\* _RULESETS.match(issue_code)
Match ==
    /\ ret' = Call("match", issue_code, RULESETS_match(issue_code))
    /\ UNCHANGED <<index, cache, gen, issue_code, added>>
    /\ UNCHANGED <<serialized_issue, ruff_file, statistics>>

\* get_severity(issue_code)
Classify ==
    /\ ret' = Call("get_severity", issue_code, get_severity(issue_code))
    /\ UNCHANGED <<index, cache, gen, issue_code, added>>
    /\ UNCHANGED <<serialized_issue, ruff_file, statistics>>

NextClassify == Match \/ Classify

SpecClassify == InitClassify /\ [][NextClassify]_vars

-----------------------------------------------------------------------------
(* create_issue on records with absent fields *)

\* The largest number of fields absent from one record.
MaxMissing == 2

\* The fields of a record of a ruff report.
Fields ==
    {"cell", "code", "end_location", "filename", "fix", "location", "message",
     "noqa_row", "url"}

\* The record d without the fields in `missing`.
Without(d, missing) == [k \in DOMAIN d \ missing |-> d[k]]

\* The record d with a severity supplied in it.
WithSeverity(d, name) ==
    [k \in DOMAIN d \cup {"severity"} |-> IF k = "severity" THEN PyStr(name) ELSE d[k]]

\* A fix whose list of edits is empty.
EmptyEditsFix == [RawFix EXCEPT !.edits = <<>>]

\* The records handed to create_issue: an unfixed one, a fixed one, one with
\* an empty list of edits and one with a supplied severity, each without up
\* to MaxMissing of its fields.
CreateRecords ==
    {Without(d, missing) :
        d \in {RawIssue(<<"E", "5", "0", "1">>, mod_py, PyNone),
               RawIssue(<<"W", "2", "9", "1">>, mod_py, RawFix),
               RawIssue(<<"W", "2", "9", "1">>, mod_py, EmptyEditsFix),
               WithSeverity(RawIssue(<<"Z", "Z", "Z", "1">>, pkg_a_py, PyNone),
                            SEVERITY_ERROR.name)},
        missing \in {m \in SUBSET Fields : Cardinality(m) <= MaxMissing}}

InitCreate ==
    /\ InitIndex
    /\ cache = EmptyCache
    /\ gen = NoGen
    /\ issue_code = <<>>
    /\ serialized_issue \in CreateRecords
    /\ ruff_file = <<>>
    /\ statistics = PyNone
    /\ added = <<>>
    /\ ret = Call("__init__", <<>>, Returned(PyNone))

\* create_issue(serialized_issue)
CreateIssue ==
    /\ ret' = Call("create_issue", serialized_issue, create_issue(serialized_issue))
    /\ UNCHANGED <<index, cache, gen, issue_code, added>>
    /\ UNCHANGED <<serialized_issue, ruff_file, statistics>>

NextCreate == CreateIssue

SpecCreate == InitCreate /\ [][NextCreate]_vars

-----------------------------------------------------------------------------
(* collect_issues on batches of records *)

\* The records of the batches: the well-formed ones, one without its
\* message and one whose fix has no edits.
BatchRecords ==
    Records \cup {Without(RawIssue(<<"E", "5", "0", "1">>, mod_py, PyNone), {"message"}),
                  RawIssue(<<"W", "2", "9", "1">>, mod_py, EmptyEditsFix),
                  RawIssue(<<"Z", "Z", "Z", "1">>, mod_py, PyNone)}

\* The batches: every sequence of at most MaxAdd records.
Batches == UNION {[1..n -> BatchRecords] : n \in 0..MaxAdd}

InitCollect ==
    /\ InitIndex
    /\ cache = EmptyCache
    /\ gen = NoGen
    /\ issue_code = <<>>
    /\ serialized_issue = PyNone
    /\ ruff_file \in Batches
    /\ statistics = PyNone
    /\ added = <<>>
    /\ ret = Call("__init__", <<>>, Returned(PyNone))

\* issue_mapping = collect_issues(ruff_file): the index is the returned
\* IssueMapping; when the call raises there is none.
Collect ==
    /\ LET r == collect_issues(ruff_file)
       IN  IF r.exc # ""
           THEN /\ ret' = Call("collect_issues", ruff_file, r)
                /\ UNCHANGED <<index, added>>
           ELSE /\ ret' = Call("collect_issues", ruff_file,
                               [r EXCEPT !.v = [t |-> "IssueMapping"]])
                /\ SetIndex(r.v)
                /\ added' = [n \in 1..Len(r.v._values) |->
                                [issue_key |-> r.v._values[n].k,
                                 issue |-> r.v._values[n].v, exc |-> ""]]
    /\ UNCHANGED <<cache, gen, issue_code, serialized_issue, ruff_file, statistics>>

\* The files whose statistics are made: the two of the records and one
\* without issues.
Files == {PyStr(mod_py), PyStr(pkg_a_py), PyStr(<<"o", ".", "p", "y">>)}

\* A source code of n lines.
SourceOfLines(n) == [i \in 1..(n - 1) |-> "\n"]

\* The source codes: the empty one, one of three lines, the last of them
\* empty, and one of 200 lines.
SourceCodes == {<<>>, <<"x", "\n", "y", "\n">>, SourceOfLines(200)}

\* statistics = calculate_statistics(issues, source_code), for the issues of
\* one file of the index that collect_issues returned.
CalculateStatistics(file, source_code) ==
    /\ \/ ret.op = "collect_issues" /\ ret.out.exc = ""
       \/ ret.op = "calculate_statistics"
    /\ LET issues == get(self, file, PyStr(<<"f", "i", "l", "e", "n", "a", "m", "e">>)).v
           r == calculate_statistics(issues, source_code)
       IN  /\ ret' = Call("calculate_statistics",
                          [issues |-> issues, lines |-> count_newlines(source_code) + 1],
                          [r EXCEPT !.v = IF r.exc = "" THEN [t |-> "Statistics"] ELSE PyNone])
           /\ statistics' = IF r.exc = "" THEN r.v ELSE statistics
    /\ UNCHANGED <<index, cache, gen, issue_code, added>>
    /\ UNCHANGED <<serialized_issue, ruff_file>>

NextCollect ==
    \/ Collect
    \/ \E file \in Files, source_code \in SourceCodes :
          CalculateStatistics(file, source_code)

SpecCollect == InitCollect /\ [][NextCollect]_vars

-----------------------------------------------------------------------------
(* generate_score and score_to_letter *)

\* The largest number of issues of one severity.
MaxCount == 1

\* The arguments of generate_score: no line, one line, 100 and 1000 lines;
\* up to MaxCount issues of each severity, or 5 warnings.
LineCounts == {0, 1, 100, 1000}
Counts == 0..MaxCount
WarningCounts == Counts \cup {5}

\* The scores graded: the integers from -5 to 105, a very low and a very
\* high one, and the number 0.001 below each threshold of the grade scale.
Scores ==
    {float(n) : n \in -5..105} \cup {float(-1500), float(2000)}
      \cup {PyFloat(GRADE_SCALE[n][1].num * 1000 - 1, 1000) : n \in 1..Len(GRADE_SCALE)}

\* generate_score(lines, fixed, info, best_practice, warnings, errors)
GenerateScore(lines, fixed, info, best_practice, warnings, errors) ==
    /\ ret' = Call("generate_score",
                   [lines |-> lines, fixed |-> fixed, info |-> info,
                    best_practice |-> best_practice, warnings |-> warnings,
                    errors |-> errors],
                   generate_score(lines, fixed, info, best_practice, warnings, errors))
    /\ UNCHANGED <<index, cache, gen, issue_code, added>>
    /\ UNCHANGED <<serialized_issue, ruff_file, statistics>>

\* score_to_letter(score)
ScoreToLetter(score) ==
    /\ ret' = Call("score_to_letter", score, Returned(score_to_letter(score)))
    /\ UNCHANGED <<index, cache, gen, issue_code, added>>
    /\ UNCHANGED <<serialized_issue, ruff_file, statistics>>

NextScore ==
    \/ \E lines \in LineCounts, fixed, info, best_practice, errors \in Counts,
           warnings \in WarningCounts :
          GenerateScore(lines, fixed, info, best_practice, warnings, errors)
    \/ \E score \in Scores : ScoreToLetter(score)

SpecScore == Init /\ [][NextScore]_vars

-----------------------------------------------------------------------------
(* Statistics snapshots: construction and attribute assignment *)

\* Statistics is a dataclass with slots that is not frozen: an assignment to
\* one of its fields sets the field, as the ones of __post_init__ do, and an
\* assignment to another name raises AttributeError.
Statistics__setattr__(s, name, value) ==
    IF name \in DOMAIN s \ {"t"}
    THEN Returned([s EXCEPT ![name] = value])
    ELSE Raised("AttributeError")

\* The line counts of the snapshots constructed.
SnapshotLines == {1, 100}

\* The grades and the scores passed to the constructor.
PassedGrades == {PyStr(<<"F">>), PyStr(<<"A", "+">>)}
PassedScores == {float(0), float(100)}

\* The assignments made to a snapshot: a score, a grade, a count and a name
\* that is no field.
Assignments ==
    {<<"score", float(5)>>, <<"grade", PyStr(<<"A", "+">>)>>, <<"error", 99>>,
     <<"foo", 1>>}

\* statistics = Statistics(lines, issues, fixed, info, best_practice, warning,
\* error, grade, score): the one snapshot that is followed is constructed.
NewStatistics(lines, fixed, info, best_practice, warning, error, grade, score) ==
    /\ statistics = PyNone
    /\ LET r == Statistics(lines, fixed + info + best_practice + warning + error,
                           fixed, info, best_practice, warning, error, grade, score,
                           SEVERITY_NULL)
       IN  /\ ret' = Call("Statistics",
                          [lines |-> lines, fixed |-> fixed, info |-> info,
                           best_practice |-> best_practice, warnings |-> warning,
                           errors |-> error, grade |-> grade, score |-> score],
                          [r EXCEPT !.v = IF r.exc = "" THEN [t |-> "Statistics"] ELSE PyNone])
           /\ statistics' = IF r.exc = "" THEN r.v ELSE statistics
    /\ UNCHANGED <<index, cache, gen, issue_code, added>>
    /\ UNCHANGED <<serialized_issue, ruff_file>>

\* statistics.name = value
SetAttr(name, value) ==
    /\ statistics # PyNone
    /\ LET r == Statistics__setattr__(statistics, name, value)
       IN  /\ ret' = Call("__setattr__", [name |-> name, value |-> value],
                          [r EXCEPT !.v = PyNone])
           /\ statistics' = IF r.exc = "" THEN r.v ELSE statistics
    /\ UNCHANGED <<index, cache, gen, issue_code, added>>
    /\ UNCHANGED <<serialized_issue, ruff_file>>

NextSnapshot ==
    \/ \E lines \in SnapshotLines, fixed, info, best_practice, warning, error \in Counts,
           grade \in PassedGrades, score \in PassedScores :
          NewStatistics(lines, fixed, info, best_practice, warning, error, grade, score)
    \/ \E assignment \in Assignments : SetAttr(assignment[1], assignment[2])

SpecSnapshot == Init /\ [][NextSnapshot]_vars

-----------------------------------------------------------------------------
(* The index of ruff_reporter: add of new issues and of issues added before *)

\* The largest number of adds of an issue that was added before.
MaxReadd == 1

\* issue_mapping.add(issue) for the issue of the n-th add: id(issue) is the
\* one of that add.
AddAgain(n) ==
    /\ Len(added) - Len(_values) < MaxReadd
    /\ n \in 1..Len(added)
    /\ LET a == add(self, added[n].issue, added[n].issue_key)
       IN  /\ SetIndex(a.self)
           /\ ret' = Call("add", added[n].issue, a.out)
           /\ added' = Append(added, [issue_key |-> added[n].issue_key,
                                      issue |-> added[n].issue, exc |-> a.out.exc])
    /\ UNCHANGED <<cache, gen, issue_code>>
    /\ UNCHANGED <<serialized_issue, ruff_file, statistics>>

NextReadd ==
    \/ \E d \in Records : Add(d)
    \/ \E n \in 1..(MaxAdd + MaxReadd) : AddAgain(n)

SpecReadd == Init /\ [][NextReadd]_vars

-----------------------------------------------------------------------------
(* The vocabulary of the properties *)

filename == PyStr(<<"f", "i", "l", "e", "n", "a", "m", "e">>)
ruleset == PyStr(<<"r", "u", "l", "e", "s", "e", "t">>)
code == PyStr(<<"c", "o", "d", "e">>)
severity == PyStr(<<"s", "e", "v", "e", "r", "i", "t", "y">>)
fix == PyStr(<<"f", "i", "x">>)

\* The rule families of the severity table.
Families == {RULESETS[i][1] : i \in 1..Len(RULESETS)}
FamilySeverity(family) ==
    RULESETS[CHOOSE i \in 1..Len(RULESETS) : RULESETS[i][1] = family][2]

\* The prefixes of a code of length 1 to 3 that are rule families.
FamilyPrefixes(c) == {Slice(c, n) : n \in 1..3} \cap Families

\* The longest of them, None when there is none.
LongestFamilyPrefix(c) ==
    IF FamilyPrefixes(c) = {} THEN PyNone
    ELSE PyStr(CHOOSE f \in FamilyPrefixes(c) :
                   \A g \in FamilyPrefixes(c) : Len(g) <= Len(f))

\* The key an issue has in dimension d: a sequence of one key, or of none
\* when the issue has no key there (no fix, or a severity that is no
\* SEVERITY member and so has no name).
KeysOf(d, issue) ==
    CASE d = filename -> <<issue.filename>>
      [] d = ruleset -> <<RULESETS_match(issue.code.s).v>>
      [] d = code -> <<issue.code>>
      [] d = severity ->
            IF issue.severity.t = "SEVERITY" THEN <<PyStr(issue.severity.name)>> ELSE <<>>
      [] d = fix -> IF issue.fix # PyNone THEN <<issue.fix>> ELSE <<>>

\* The add calls whose issue has key k in dimension d.
AddedUnder(d, k) == {n \in 1..Len(added) : KeysOf(d, added[n].issue) = <<k>>}
Observed(d, k) == AddedUnder(d, k) # {}

\* Every key an issue of the records can have, and one none has.
AllKeys ==
    UNION {{KeysOf(d, i)[n] : n \in 1..Len(KeysOf(d, i))} : d \in Filter, i \in RecordIssues}
      \cup {PyStr(<<"n", "o", "k", "e", "y">>)}
OrigAllStrKeys ==
    {k \in UNION {{KeysOf(d, orig_create_issue(r).v)[n] :
                      n \in 1..Len(KeysOf(d, orig_create_issue(r).v))} :
                  d \in Filter, r \in Records} : k.t = "str"}
      \cup {PyStr(<<"n", "o", "k", "e", "y">>)}

\* The keys of dimension d in the order the first n add calls first had them.
RECURSIVE FirstSeen(_, _)
FirstSeen(d, n) ==
    IF n = 0 THEN <<>>
    ELSE LET before == FirstSeen(d, n - 1)
             ks == KeysOf(d, added[n].issue)
         IN  IF ks = <<>> \/ (\E m \in 1..Len(before) : before[m] = ks[1])
             THEN before
             ELSE Append(before, ks[1])

\* What a full traversal of iter(d) is to yield.
IterExpected(d) ==
    LET ks == FirstSeen(d, Len(added))
    IN  [n \in 1..Len(ks) |->
            <<ks[n], {added[m].issue : m \in AddedUnder(d, ks[n])}>>]

-----------------------------------------------------------------------------
(* Properties *)

\* C1: after any sequence of add calls on issues with distinct identities,
\* values() has as many issues as there were add calls, and every added
\* issue i is a member of get(i.filename, "filename").
C1_AddedIssuesAreCountedAndFound ==
    /\ Len(values(self).v) = Len(added)
    /\ \A n \in 1..Len(added) :
          /\ get(self, added[n].issue.filename, filename).exc = ""
          /\ added[n].issue \in get(self, added[n].issue.filename, filename).v

\* Two different issues of one file were added.
C1_Witness ==
    /\ ret.op = "add"
    /\ \E m, n \in 1..Len(added) :
          /\ added[m].issue # added[n].issue
          /\ added[m].issue.filename = added[n].issue.filename

\* C2 (ruff_reporter): for each of the five dimensions d and every key k,
\* get(k, d) is exactly the set of the added issues whose key in d is k.
C2_GetReturnsTheIssuesOfTheKey ==
    \A d \in Filter, k \in AllKeys :
        /\ get(self, k, d).exc = ""
        /\ get(self, k, d).v = {added[n].issue : n \in AddedUnder(d, k)}

\* C2 (original_report): for each of the five dimensions d and every str key
\* k, get(d, k) is exactly the set of (the identities of) the added issues
\* whose key in d is k: none is missing, and nothing filed in another
\* dimension's index is returned.
C2_OrigGetReturnsTheIssuesOfTheKey ==
    \A d \in Filter, k \in OrigAllStrKeys :
        /\ orig_get(self, d, k).exc = ""
        /\ orig_get(self, d, k).v = {added[n].issue_key : n \in AddedUnder(d, k)}

\* C3: a counter read returns the value derived from the indexes as they
\* are at the moment of the read, whatever reads and adds came before.
C3_CounterReadsAreNeverStale ==
    ret.op \in Counters =>
        (ret.out.exc = "" /\ ret.out.v = CounterBody(ret.op, self))

\* C4: match returns the longest prefix of the code, of length at most 3,
\* that is a registered rule family (None when there is none); "PLE001" is
\* matched to "PLE" with severity ERROR and "ANN401" to "ANN" with INFO.
C4_MatchReturnsTheLongestFamilyPrefix ==
    /\ ret.op = "match" => ret.out.v = LongestFamilyPrefix(issue_code)
    /\ (ret.op = "match" /\ issue_code = <<"P", "L", "E", "0", "0", "1">>)
          => ret.out.v = PyStr(<<"P", "L", "E">>)
    /\ (ret.op = "get_severity" /\ issue_code = <<"P", "L", "E", "0", "0", "1">>)
          => ret.out.v = SEVERITY_ERROR
    /\ (ret.op = "match" /\ issue_code = <<"A", "N", "N", "4", "0", "1">>)
          => ret.out.v = PyStr(<<"A", "N", "N">>)
    /\ (ret.op = "get_severity" /\ issue_code = <<"A", "N", "N", "4", "0", "1">>)
          => ret.out.v = SEVERITY_INFO

\* C5: an issue whose code has no registered family prefix has severity
\* NULL, a warning is emitted and nothing is raised, and add files the issue
\* in the master set and in the filename, code and severity indexes.
C5_UnknownCodeIsFiledWithSeverityNull ==
    (ret.op = "add" /\ FamilyPrefixes(ret.arg.code.s) = {}) =>
        LET issue_key == added[Len(added)].issue_key
        IN  /\ ret.arg.severity = SEVERITY_NULL
            /\ ret.out.exc = ""
            /\ ret.out.w # <<>>
            /\ DictGet(_values, issue_key, PyNone) = ret.arg
            /\ issue_key \in DictGet(_file_map, ret.arg.filename, {})
            /\ issue_key \in DictGet(_code_map, ret.arg.code, {})
            /\ issue_key \in DictGet(_severity_map, PyStr(SEVERITY_NULL.name), {})

\* C6: for every code, match raises nothing and returns None or a rule
\* family, and get_severity returns a SEVERITY member: the severity of the
\* matched family, one of ERROR, WARNING, BEST_PRACTICE, INFO and FIXED, or
\* NULL when no family matches.
C6_ClassifierYieldsFamiliesAndSeverities ==
    /\ ret.op = "match" =>
          /\ ret.out.exc = ""
          /\ ret.out.v = PyNone \/ (ret.out.v.t = "str" /\ ret.out.v.s \in Families)
    /\ ret.op = "get_severity" =>
          /\ ret.out.exc = ""
          /\ ret.out.v \in {SEVERITY_ERROR, SEVERITY_WARNING, SEVERITY_BEST_PRACTICE,
                            SEVERITY_INFO, SEVERITY_FIXED, SEVERITY_NULL}
          /\ ret.out.v = IF LongestFamilyPrefix(issue_code) = PyNone
                         THEN SEVERITY_NULL
                         ELSE FamilySeverity(LongestFamilyPrefix(issue_code).s)

\* C7: a get with one of the five dimensions and a key no added issue has
\* in that dimension returns the empty set, raises nothing and leaves the
\* master set and the five indexes as they were.
C7_UnknownKeyGivesTheEmptySet ==
    /\ [](\A d \in Filter, k \in AllKeys \cup QueryKeys :
              ~Observed(d, k) => (get(self, k, d).exc = "" /\ get(self, k, d).v = {}))
    /\ [][(/\ ret'.op = "get"
           /\ ret'.arg.issue_filter \in Filter
           /\ ~Observed(ret'.arg.issue_filter, ret'.arg.key))
             => (ret'.out.exc = "" /\ ret'.out.v = {} /\ index' = index)]_vars

\* A key that is known in another dimension was looked up in a dimension
\* that does not have it.
C7_Witness ==
    /\ ret.op = "get"
    /\ ret.arg.issue_filter \in Filter
    /\ ~Observed(ret.arg.issue_filter, ret.arg.key)
    /\ \E d \in Filter : Observed(d, ret.arg.key)

\* C8: for any index contents, get with a filter that is none of the five
\* raises ValueError, and so does iter, at the call, leaving the index as
\* it was.
C8_InvalidFilterRaisesValueError ==
    /\ [](\A issue_filter \in FilterArgs \ Filter :
              /\ iter(self, issue_filter).out.exc = "ValueError"
              /\ iter(self, issue_filter).gen = gen
              /\ \A key \in QueryKeys :
                    get(self, key, issue_filter).exc = "ValueError")
    /\ [][(ret'.op = "iter" /\ ret'.arg \notin Filter)
             => (ret'.out.exc = "ValueError" /\ index' = index)]_vars

\* iter was called with an invalid filter on an index that has issues.
C8_Witness ==
    /\ ret.op = "iter"
    /\ ret.arg \notin Filter
    /\ Len(added) > 0

\* C9: get with a list of dimensions and one key returns a list of one
\* result per dimension, in the order of the dimensions, the n-th being the
\* lookup of the key in the n-th dimension.
C9_ListOfFiltersGivesOneResultPerFilter ==
    (ret.op = "get" /\ ret.arg.issue_filter.t = "list") =>
        /\ ret.out.exc = ""
        /\ Len(ret.out.v) = Len(ret.arg.issue_filter.items)
        /\ \A n \in 1..Len(ret.arg.issue_filter.items) :
              ret.out.v[n] = get(self, ret.arg.key, ret.arg.issue_filter.items[n]).v

\* C10: when no add is made after the call of iter(d), the items yielded so
\* far are the first items of: each key of dimension d once, in the order
\* the add calls first had the keys, each with the set of the issues that
\* have the key; a traversal that has ended has yielded all of them.
C10_IterYieldsKeysInFirstSeenOrder ==
    (gen.state # "none" /\ gen.adds = 0) =>
        LET expected == IterExpected(gen.issue_filter)
        IN  /\ Len(gen.yielded) <= Len(expected)
            /\ gen.yielded = SubSeq(expected, 1, Len(gen.yielded))
            /\ gen.state = "finished" => gen.yielded = expected

\* A traversal has ended that yielded two keys, one of them with two issues.
C10_Witness ==
    /\ gen.state = "finished"
    /\ gen.adds = 0
    /\ Len(gen.yielded) >= 2
    /\ \E n \in 1..Len(gen.yielded) : Cardinality(gen.yielded[n][2]) >= 2
    /\ gen.yielded[1][1] # PyStr(mod_py)

\* C11: the sequence returned by iter is restartable: when a traversal has
\* ended and no add was made since the call of iter, the next step on the
\* same sequence starts it again and yields its first pair.
C11_EndedTraversalStartsAgain ==
    [][(/\ gen.state = "finished"
        /\ gen.adds = 0
        /\ gen.yielded # <<>>
        /\ ret'.op = "next")
          => (ret'.out.exc = "" /\ ret'.out.v = gen.yielded[1])]_vars

\* The fields create_issue must find in a record, and the ones that may be
\* absent.
RequiredFields == {"code", "end_location", "filename", "location", "message"}
OptionalFields == {"url", "fix", "noqa_row", "cell"}

\* The fields of a record that are present are well formed.
WellFormedFields(d) ==
    ("fix" \in DOMAIN d /\ d.fix # PyNone) => Fix(d.fix).exc = ""

\* C12: create_issue raises KeyError when code, end_location, filename,
\* location or message is absent from the record, and when only url, fix,
\* noqa_row or cell are absent it returns an Issue in which each absent
\* field is None.
C12_AbsentFieldsOfARecord ==
    (ret.op = "create_issue" /\ WellFormedFields(serialized_issue)) =>
        LET missing == Fields \ DOMAIN serialized_issue
        IN  IF missing \cap RequiredFields # {}
            THEN ret.out.exc = "KeyError"
            ELSE /\ ret.out.exc = ""
                 /\ \A f \in missing : ret.out.v[f] = PyNone

\* The severity the classifier table gives a code: that of the longest
\* rule family that starts it, NULL when there is none.
TableSeverity(c) ==
    IF LongestFamilyPrefix(c) = PyNone THEN SEVERITY_NULL
    ELSE FamilySeverity(LongestFamilyPrefix(c).s)

\* C13: in every state reached by add calls, each issue made by
\* create_issue and added has the severity the classifier table gives its
\* code (NULL when no family matches), whatever the record holds, and is
\* filed in the severity index under the name of that severity and under
\* no other.
C13_SeverityIsDerivedFromTheCode ==
    \A n \in 1..Len(added) :
        LET issue == added[n].issue
            issue_key == added[n].issue_key
        IN  /\ issue.severity = TableSeverity(issue.code.s)
            /\ \A m \in 1..Len(_severity_map) :
                  issue_key \in _severity_map[m].v
                      <=> _severity_map[m].k = PyStr(TableSeverity(issue.code.s).name)
            /\ \E m \in 1..Len(_severity_map) : issue_key \in _severity_map[m].v

\* The record has a fix whose list of edits is empty.
HasEmptyEdits(d) ==
    /\ "fix" \in DOMAIN d
    /\ d.fix # PyNone
    /\ d.fix.edits = <<>>

\* C14: create_issue returns no Issue for a record whose fix has an empty
\* list of edits: it raises, and for every such record that has the fields
\* read before the fix the error is the IndexError of Fix.__post_init__.
C14_EmptyEditsAreRejected ==
    (ret.op = "create_issue" /\ HasEmptyEdits(serialized_issue)) =>
        /\ ret.out.exc # ""
        /\ {"code", "end_location", "filename"} \subseteq DOMAIN serialized_issue
              => ret.out.exc = "IndexError"

\* create_issue was handed a record with every field, whose fix has an
\* empty list of edits.
C14_Witness ==
    /\ ret.op = "create_issue"
    /\ HasEmptyEdits(serialized_issue)
    /\ DOMAIN serialized_issue = Fields
    /\ ret.out.exc = "IndexError"

\* create_issue rejects the record.
Malformed(d) == create_issue(d).exc # ""

\* C15: when one record of the batch is malformed, collect_issues raises
\* nothing, warns, and returns an index that holds the issue of every other
\* record of the batch, before and after the malformed one.
C15_MalformedRecordIsSkipped ==
    (/\ ret.op = "collect_issues"
     /\ Cardinality({n \in DOMAIN ruff_file : Malformed(ruff_file[n])}) = 1) =>
        /\ ret.out.exc = ""
        /\ ret.out.w # <<>>
        /\ Len(_values) = Len(ruff_file) - 1
        /\ \A n \in DOMAIN ruff_file :
              ~Malformed(ruff_file[n]) =>
                  \E m \in 1..Len(_values) : _values[m].v = create_issue(ruff_file[n]).v

\* C16: collect_issues on the empty batch raises nothing and returns an
\* empty index, and the statistics made from an empty set of issues have
\* score 100.0, grade "A+" and max_severity NO_ISSUES, whatever the number
\* of lines.
C16_NoIssuesIsThePerfectScore ==
    /\ (ret.op = "collect_issues" /\ ruff_file = <<>>) =>
          /\ ret.out.exc = ""
          /\ index = <<<<>>, <<>>, <<>>, <<>>, <<>>, <<>>>>
    /\ (ret.op = "calculate_statistics" /\ ret.arg.issues = {}) =>
          /\ ret.out.exc = ""
          /\ statistics.lines = ret.arg.lines
          /\ statistics.score = float(100)
          /\ statistics.grade = PyStr(<<"A", "+">>)
          /\ statistics.max_severity = SEVERITY_NO_ISSUES
    /\ \A lines \in LineCounts \cup {500} :
          /\ generate_score(lines, 0, 0, 0, 0, 0).exc = ""
          /\ generate_score(lines, 0, 0, 0, 0, 0).v = float(100)

\* The statistics of a file of 200 lines were made from the index of the
\* empty batch.
C16_Witness ==
    /\ ret.op = "calculate_statistics"
    /\ ruff_file = <<>>
    /\ ret.arg.issues = {}
    /\ ret.arg.lines = 200

\* The weighted sum of the counts of a call of generate_score.
Weighted(a) ==
    a.errors * 16 + a.warnings * 8 + a.best_practice * 4 + a.info * 2 + a.fixed * 1

Max(a, b) == IF a >= b THEN a ELSE b

\* 100 - weighted / (max(line_count, 1) / 100)
ScoreFormula(a) ==
    PyFloat(100 * Max(a.lines, 1) - 100 * Weighted(a), Max(a.lines, 1))

\* C17: with at least one issue and any number of lines from 0 on,
\* generate_score and the construction of a Statistics raise nothing and the
\* score is 100 - (errors*16 + warnings*8 + best_practice*4 + info*2 +
\* fixed*1) / (max(lines, 1) / 100).
C17_ScoreIsTheWeightedFormula ==
    (/\ ret.op = "generate_score"
     /\ ret.arg.fixed + ret.arg.info + ret.arg.best_practice + ret.arg.warnings
            + ret.arg.errors >= 1) =>
        LET a == ret.arg
            s == Statistics(a.lines, 1, a.fixed, a.info, a.best_practice, a.warnings,
                            a.errors, PyStr(<<"F">>), float(0), SEVERITY_NULL)
        IN  /\ ret.out.exc = ""
            /\ ret.out.v = ScoreFormula(a)
            /\ s.exc = ""
            /\ s.v.score = ScoreFormula(a)

\* C18: for one line or more and any counts, generate_score returns a score
\* from 0 to 100.
C18_ScoreIsBetween0And100 ==
    (ret.op = "generate_score" /\ ret.arg.lines >= 1) =>
        /\ ret.out.exc = ""
        /\ ge(ret.out.v, float(0))
        /\ ge(float(100), ret.out.v)

\* The grade scale as the specification gives it: thresholds and letters.
GradeTable ==
    <<<<97, <<"A", "+">>>>, <<93, <<"A">>>>, <<90, <<"A", "-">>>>,
      <<87, <<"B", "+">>>>, <<83, <<"B">>>>, <<80, <<"B", "-">>>>,
      <<77, <<"C", "+">>>>, <<73, <<"C">>>>, <<70, <<"C", "-">>>>,
      <<67, <<"D", "+">>>>, <<63, <<"D">>>>, <<60, <<"D", "-">>>>>>

\* The thresholds of the table that the score meets or exceeds.
Met(score) == {n \in 1..Len(GradeTable) : score.num >= GradeTable[n][1] * score.den}

\* C19: score_to_letter returns the letter of the highest threshold of the
\* table that the score meets or exceeds, "F" when it meets none (every
\* score below 60, the negative ones too); 90.0 gives "A-" and 89.999 "B+".
C19_GradeIsTheFirstThresholdMet ==
    ret.op = "score_to_letter" =>
        LET score == ret.arg
            letter == ret.out.v
        IN  /\ ret.out.exc = ""
            /\ letter.t = "str"
            /\ letter.s \in {GradeTable[n][2] : n \in 1..Len(GradeTable)} \cup {<<"F">>}
            /\ Met(score) = {} => letter.s = <<"F">>
            /\ Met(score) # {} =>
                  letter.s = GradeTable[CHOOSE n \in Met(score) :
                                           \A m \in Met(score) : n <= m][2]
            /\ score.num < 60 * score.den => letter.s = <<"F">>
            /\ score = PyFloat(90, 1) => letter.s = <<"A", "-">>
            /\ score = PyFloat(89999, 1000) => letter.s = <<"B", "+">>

\* 89.999 was graded.
C19_Witness ==
    /\ ret.op = "score_to_letter"
    /\ ret.arg = PyFloat(89999, 1000)
    /\ ret.out.v = PyStr(<<"B", "+">>)

\* C20: with the number of lines and the other counts fixed, the score of
\* one more error is strictly below the score without it, for any number
\* of errors from 0 on.
C20_OneMoreErrorLowersTheScore ==
    ret.op = "generate_score" =>
        LET a == ret.arg
            more == generate_score(a.lines, a.fixed, a.info, a.best_practice,
                                   a.warnings, a.errors + 1)
        IN  /\ ret.out.exc = ""
            /\ more.exc = ""
            /\ lt(more.v, ret.out.v)

\* C21: of two files of one line or more with the same counts, not all of
\* them 0, the one with more lines has the strictly higher score; 5 warnings
\* in 100 lines give the score 60 and the grade "D-", and 5 warnings in 1000
\* lines the score 96 and the grade "A".
C21_MoreLinesGiveAHigherScore ==
    (/\ ret.op = "generate_score"
     /\ ret.arg.lines >= 1
     /\ Weighted(ret.arg) > 0) =>
        LET a == ret.arg
            five == a.warnings = 5 /\ Weighted(a) = 40
        IN  /\ ret.out.exc = ""
            /\ \A lines \in LineCounts :
                  lines > a.lines =>
                      LET larger == generate_score(lines, a.fixed, a.info, a.best_practice,
                                                   a.warnings, a.errors)
                      IN  larger.exc = "" /\ lt(ret.out.v, larger.v)
            /\ (five /\ a.lines = 100) =>
                  /\ ret.out.v = float(60)
                  /\ score_to_letter(ret.out.v) = PyStr(<<"D", "-">>)
            /\ (five /\ a.lines = 1000) =>
                  /\ ret.out.v = float(96)
                  /\ score_to_letter(ret.out.v) = PyStr(<<"A">>)

\* The score of 5 warnings in 1000 lines was computed.
C21_Witness ==
    /\ ret.op = "generate_score"
    /\ ret.arg.lines = 1000
    /\ ret.arg.warnings = 5
    /\ Weighted(ret.arg) = 40
    /\ ret.out.v = float(96)

\* The batch of the three records "E501", "ANN001" and "W291" with a safe
\* fix, all of mod.py.
ThreeRecords ==
    <<RawIssue(<<"E", "5", "0", "1">>, mod_py, PyNone),
      RawIssue(<<"A", "N", "N", "0", "0", "1">>, mod_py, PyNone),
      RawIssue(<<"W", "2", "9", "1">>, mod_py, RawFix)>>

\* The issues of the index with the given code.
IssuesOfCode(issue_code_) ==
    {_values[n].v : n \in {m \in 1..Len(_values) : _values[m].v.code = PyStr(issue_code_)}}

\* C22: collect_issues on the batch of "E501", "ANN001" and "W291" with a
\* safe fix, all of mod.py, gives three issues of severity ERROR, INFO and
\* WARNING; get("mod.py", "filename") has 3 issues and get("ERROR",
\* "severity") has 1; the statistics of these 3 issues over 200 lines have
\* the weighted sum 26, the score 87.0 and the grade "B+".
C22_ThreeRecordsEndToEnd ==
    /\ (ruff_file = ThreeRecords /\ ret.op \in {"collect_issues", "calculate_statistics"}) =>
          /\ ret.out.exc = ""
          /\ Len(_values) = 3
          /\ {issue.severity : issue \in IssuesOfCode(<<"E", "5", "0", "1">>)} = {SEVERITY_ERROR}
          /\ {issue.severity : issue \in IssuesOfCode(<<"A", "N", "N", "0", "0", "1">>)} = {SEVERITY_INFO}
          /\ {issue.severity : issue \in IssuesOfCode(<<"W", "2", "9", "1">>)} = {SEVERITY_WARNING}
          /\ get(self, PyStr(mod_py), filename).exc = ""
          /\ Cardinality(get(self, PyStr(mod_py), filename).v) = 3
          /\ get(self, PyStr(<<"E", "R", "R", "O", "R">>), severity).exc = ""
          /\ Cardinality(get(self, PyStr(<<"E", "R", "R", "O", "R">>), severity).v) = 1
    /\ (/\ ruff_file = ThreeRecords
        /\ ret.op = "calculate_statistics"
        /\ Cardinality(ret.arg.issues) = 3
        /\ ret.arg.lines = 200) =>
          /\ statistics.lines = 200
          /\ statistics.issues = 3
          /\ statistics.error * 16 + statistics.warning * 8 + statistics.best_practice * 4
                 + statistics.info * 2 + statistics.fixed * 1 = 26
          /\ statistics.score = float(87)
          /\ statistics.grade = PyStr(<<"B", "+">>)
          /\ statistics.max_severity = SEVERITY_ERROR

\* The statistics of mod.py with 200 lines were made from the index of the
\* three records.
C22_Witness ==
    /\ ruff_file = ThreeRecords
    /\ ret.op = "calculate_statistics"
    /\ Cardinality(ret.arg.issues) = 3
    /\ ret.arg.lines = 200
    /\ statistics # PyNone
    /\ statistics.score = float(87)

\* The order of the severities, from the lowest.
SeverityOrder ==
    <<SEVERITY_NULL, SEVERITY_NO_ISSUES, SEVERITY_FIXED, SEVERITY_INFO,
      SEVERITY_BEST_PRACTICE, SEVERITY_WARNING, SEVERITY_ERROR>>

\* The place of a severity in the order.
Rank(member) == CHOOSE n \in 1..Len(SeverityOrder) : SeverityOrder[n] = member

\* The issues of a set that have the severity of the given name.
PartOf(issues, name) == {issue \in issues : issue.severity.name = name}

\* The highest severity present in a set of issues, NO_ISSUES for the empty
\* set.
HighestPresent(issues) ==
    IF issues = {} THEN SEVERITY_NO_ISSUES
    ELSE SeverityOrder[CHOOSE n \in {Rank(issue.severity) : issue \in issues} :
                           \A issue \in issues : Rank(issue.severity) <= n]

\* A snapshot is the partition of the issues by severity, over the given
\* number of lines.
IsPartition(s, issues, lines) ==
    LET fixed_ == Cardinality(PartOf(issues, <<"F", "I", "X", "E", "D">>))
        info_ == Cardinality(PartOf(issues, <<"I", "N", "F", "O">>))
        best_practice_ == Cardinality(PartOf(issues, <<"B", "E", "S", "T", "_", "P", "R", "A", "C", "T", "I", "C", "E">>))
        warning_ == Cardinality(PartOf(issues, <<"W", "A", "R", "N", "I", "N", "G">>))
        error_ == Cardinality(PartOf(issues, <<"E", "R", "R", "O", "R">>))
        counted == [lines |-> lines, fixed |-> fixed_, info |-> info_,
                    best_practice |-> best_practice_, warnings |-> warning_,
                    errors |-> error_]
    IN  /\ s.lines = lines
        /\ s.fixed = fixed_
        /\ s.info = info_
        /\ s.best_practice = best_practice_
        /\ s.warning = warning_
        /\ s.error = error_
        /\ s.score = ScoreFormula(counted)
        /\ s.max_severity = HighestPresent(issues)

\* One issue of each severity of the given set.
OneOfEach(members) ==
    {[create_issue(RawIssue(<<"E", "5", "0", "1">>, mod_py, PyNone)).v
          EXCEPT !.severity = member] : member \in members}

\* C23: the fixed, info, best_practice, warning and error of the statistics
\* are the numbers of issues of exactly that severity, an issue of severity
\* NULL or NO_ISSUES is counted in none of them and adds nothing to the
\* weighted sum, and max_severity is the highest severity present in the
\* order NULL < NO_ISSUES < FIXED < INFO < BEST_PRACTICE < WARNING < ERROR,
\* NO_ISSUES for the empty set.
C23_StatisticsPartitionBySeverity ==
    /\ ret.op = "calculate_statistics" =>
          /\ ret.out.exc = ""
          /\ IsPartition(statistics, ret.arg.issues, ret.arg.lines)
    /\ (ret.op = "collect_issues" /\ Len(ruff_file) <= 1) =>
          \A members \in SUBSET SEVERITY :
              LET s == calculate_statistics(OneOfEach(members), <<"x", "\n">>)
              IN  s.exc = "" /\ IsPartition(s.v, OneOfEach(members), 2)

\* The statistics of a file were made from an issue of severity NULL and one
\* of another severity.
C23_Witness ==
    /\ ret.op = "calculate_statistics"
    /\ Cardinality(ret.arg.issues) >= 2
    /\ \E issue \in ret.arg.issues : issue.severity = SEVERITY_NULL
    /\ statistics.max_severity # SEVERITY_NULL
    /\ statistics.score # float(100)

\* C24: no field of a Statistics snapshot changes after its construction, so
\* the score of a snapshot is always the score of its lines and its five
\* counts and its grade the letter of its score, whatever score and grade
\* were passed to the constructor.
C24_SnapshotIsReadOnly ==
    statistics # PyNone =>
        LET score_ == generate_score(statistics.lines, statistics.fixed, statistics.info,
                                     statistics.best_practice, statistics.warning,
                                     statistics.error)
        IN  /\ score_.exc = ""
            /\ statistics.score = score_.v
            /\ statistics.grade = score_to_letter(statistics.score)

\* The sizes of get(f, "filename") summed over the first n filenames of the
\* filename index.
RECURSIVE SumOfFileSizes(_)
SumOfFileSizes(n) ==
    IF n = 0 THEN 0
    ELSE Cardinality(get(self, _file_map[n].k, filename).v) + SumOfFileSizes(n - 1)

\* C25: two issues with the same field values and distinct identities, both
\* added, are two entries: values() holds both, get for their filename, code,
\* rule family or severity name returns at least two elements, and the sizes
\* of get(f, "filename") summed over all filenames are the number of issues
\* of values().
C25_EqualIssuesAreTwoEntries ==
    /\ \A m, n \in 1..Len(added) :
          (/\ m # n
           /\ added[m].issue = added[n].issue
           /\ added[m].exc = ""
           /\ added[n].exc = "") =>
              LET issue == added[m].issue
              IN  /\ Len(values(self).v) >= 2
                  /\ Cardinality(get(self, issue.filename, filename).v) >= 2
                  /\ Cardinality(get(self, issue.code, code).v) >= 2
                  /\ Cardinality(get(self, RULESETS_match(issue.code.s).v, ruleset).v) >= 2
                  /\ Cardinality(get(self, PyStr(issue.severity.name), severity).v) >= 2
    /\ SumOfFileSizes(Len(_file_map)) = Len(values(self).v)

\* The number of buckets of an index that hold the identifier.
BucketsOf(mapping, issue_key) ==
    Cardinality({n \in 1..Len(mapping) : issue_key \in mapping[n].v})

\* C26: an add that raises leaves the master set and the five indexes as
\* they were before the call, and no issue is in the master set or in some
\* index while it is missing from another index it belongs to.
C26_AddIsAtomic ==
    /\ [][(ret'.op = "add" /\ ret'.out.exc # "") => index' = index]_vars
    /\ [](\A n \in 1..Len(_values) :
            LET issue_key == _values[n].k
                issue == _values[n].v
            IN  /\ BucketsOf(_file_map, issue_key) >= 1
                /\ BucketsOf(_ruleset_map, issue_key) >= 1
                /\ BucketsOf(_code_map, issue_key) >= 1
                /\ BucketsOf(_severity_map, issue_key) >= 1
                /\ issue.fix # PyNone => BucketsOf(_fix_map, issue_key) >= 1)

\* Every add so far returned.
AllAddsCompleted == \A n \in 1..Len(added) : added[n].exc = ""

\* The identifiers stored in an index.
StoredIn(mapping) == UNION {mapping[n].v : n \in 1..Len(mapping)}

\* C27: after any sequence of adds that all returned, every identifier of the
\* five indexes is a key of the master set, every issue of the master set is
\* in exactly one bucket of the filename, the ruleset, the code and the
\* severity index, in exactly one bucket of the fix index when it has a fix
\* and in none otherwise; and the add of an issue object that was added
\* before changes nothing.
C27_IndexesPartitionTheMasterSet ==
    /\ [](AllAddsCompleted =>
            /\ StoredIn(_file_map) \cup StoredIn(_ruleset_map) \cup StoredIn(_code_map)
                  \cup StoredIn(_severity_map) \cup StoredIn(_fix_map)
                  \subseteq {_values[n].k : n \in 1..Len(_values)}
            /\ \A n \in 1..Len(_values) :
                  LET issue_key == _values[n].k
                      issue == _values[n].v
                  IN  /\ BucketsOf(_file_map, issue_key) = 1
                      /\ BucketsOf(_ruleset_map, issue_key) = 1
                      /\ BucketsOf(_code_map, issue_key) = 1
                      /\ BucketsOf(_severity_map, issue_key) = 1
                      /\ BucketsOf(_fix_map, issue_key) = IF issue.fix # PyNone THEN 1 ELSE 0)
    /\ [][(/\ AllAddsCompleted
           /\ Len(added') = Len(added) + 1
           /\ \E n \in 1..Len(added) : added[n].issue_key = added'[Len(added')].issue_key) =>
              /\ ret'.op = "add"
              /\ ret'.out.exc = ""
              /\ index' = index]_vars

\* An issue with a fix and one without were added, all adds returned, and
\* one of the issues was added a second time.
C27_Witness ==
    /\ AllAddsCompleted
    /\ Len(_values) >= 2
    /\ \E n \in 1..Len(_values) : _values[n].v.fix # PyNone
    /\ \E n \in 1..Len(_values) : _values[n].v.fix = PyNone
    /\ \E m, n \in 1..Len(added) : m # n /\ added[m].issue_key = added[n].issue_key

\* C28: a code made of the name of a registered rule family, of any length,
\* followed by digits is matched to that family and classified with the
\* severity the table gives the family.
C28_EveryFamilyIsReachable ==
    \A family \in Families, digits \in CodeDigits \ {<<>>} :
        issue_code = family \o digits =>
            /\ ret.op = "match" => ret.out.exc = "" /\ ret.out.v = PyStr(family)
            /\ ret.op = "get_severity" =>
                  ret.out.exc = "" /\ ret.out.v = FamilySeverity(family)

\* C29: in the statistics calculate_statistics makes from issues made by
\* create_issue, the number of issues is the sum of the five counts:
\* issues = fixed + info + best_practice + warning + error.
C29_IssuesIsTheSumOfTheCounts ==
    ret.op = "calculate_statistics" =>
        /\ ret.out.exc = ""
        /\ statistics.issues = statistics.fixed + statistics.info + statistics.best_practice
                                  + statistics.warning + statistics.error

\* The keys the index of the generator's dimension had when iter was called:
\* the first ones of the dictionary, which only grows.
KeysAtIter ==
    LET issue_map == _match_filter(self, gen.issue_filter).v
    IN  [n \in 1..gen.di_used |-> issue_map[n].k]

\* C30: a step of a sequence obtained from iter never fails, whatever adds
\* were made on the index since the call of iter, and a traversal that has
\* ended has yielded every key the dimension's index had when iter was
\* called, each exactly once.
C30_TraversalSurvivesInterleavedAdds ==
    /\ [][(ret'.op = "next" /\ gen.state = "active") =>
              ret'.out.exc \in {"", "StopIteration"}]_vars
    /\ [](gen.state = "finished" =>
            \A n \in 1..Len(KeysAtIter) :
                Cardinality({m \in 1..Len(gen.yielded) :
                                gen.yielded[m][1] = KeysAtIter[n]}) = 1)

====
